---- MODULE Spec2Model ----
(***************************************************************************)
(* Model of the content ingestion and extraction pipeline of the           *)
(* read-it-later backend: extractContent                                   *)
(* (src/src/services/contentExtractor.ts), extractContentFromFile          *)
(* (src/src/services/fileProcessor.ts), the routes of the articles         *)
(* (src/src/modules/articles/routes.ts) and the revocation of a token      *)
(* (src/src/modules/tokens/routes.ts).                                     *)
(*                                                                         *)
(* Strings are TLA+ strings; the string helpers below follow the           *)
(* JavaScript String methods the code calls.  Every extractContent call    *)
(* is an async task; the actions are the synchronous runs between two      *)
(* awaits (network response, body read, timer).                            *)
(***************************************************************************)
EXTENDS Integers, Sequences, FiniteSets, TLC

VARIABLES contentCache, now, calls, faultsLeft, upload, page,
          accessTokens, articles, storage, requests

vars == <<contentCache, now, calls, faultsLeft, upload, page,
          accessTokens, articles, storage, requests>>

\* the state of the extraction services, and that of the routes
services == <<contentCache, now, calls, faultsLeft, upload, page>>
server == <<accessTokens, articles, storage, requests>>

(***************************************************************************)
(* Bounds of the model.                                                    *)
(***************************************************************************)
\* number of half-TTL steps the clock may take
MaxHalfDays == 2
\* number of network or parser failures while calls overlap
MaxFaults == 1

(***************************************************************************)
(* Configuration constants (contentExtractor.ts 22-29).                    *)
(***************************************************************************)
FETCH_TIMEOUT == 30000
MAX_RESPONSE_SIZE == 10 * 1024 * 1024
MAX_RETRIES == 3
RETRY_DELAY_BASE == 1000
CACHE_TTL == 24 * 60 * 60 * 1000
OEMBED_TIMEOUT == 10000

(***************************************************************************)
(* JavaScript string methods.                                              *)
(***************************************************************************)
UpperChars == "ABCDEFGHIJKLMNOPQRSTUVWXYZ"
LowerChars == "abcdefghijklmnopqrstuvwxyz"

charAt(s, i) == SubSeq(s, i, i)

toLowerChar(ch) ==
  IF \E i \in 1..Len(UpperChars) : charAt(UpperChars, i) = ch
  THEN charAt(LowerChars, CHOOSE i \in 1..Len(UpperChars) : charAt(UpperChars, i) = ch)
  ELSE ch

RECURSIVE toLowerCase(_)
toLowerCase(s) ==
  IF Len(s) <= 1 THEN toLowerChar(s)
  ELSE toLowerCase(SubSeq(s, 1, Len(s) \div 2))
         \o toLowerCase(SubSeq(s, Len(s) \div 2 + 1, Len(s)))

\* index (1-based) of the first occurrence of pat in s at or after from, 0 if none
indexOfFrom(s, pat, from) ==
  LET hits == {i \in from..(Len(s) - Len(pat) + 1) : SubSeq(s, i, i + Len(pat) - 1) = pat}
  IN IF hits = {} THEN 0 ELSE CHOOSE i \in hits : \A j \in hits : i <= j

indexOf(s, pat) == indexOfFrom(s, pat, 1)

includes(s, pat) == indexOf(s, pat) # 0

startsWith(s, pat) ==
  Len(s) >= Len(pat) /\ SubSeq(s, 1, Len(pat)) = pat

endsWith(s, pat) ==
  Len(s) >= Len(pat) /\ SubSeq(s, Len(s) - Len(pat) + 1, Len(s)) = pat

\* String.prototype.replace with a string pattern: first occurrence only
replaceFirst(s, pat, rep) ==
  LET i == indexOf(s, pat)
  IN IF i = 0 THEN s
     ELSE SubSeq(s, 1, i - 1) \o rep \o SubSeq(s, i + Len(pat), Len(s))

(***************************************************************************)
(* new URL(url) on the strings of the input sets: an http(s) scheme        *)
(* (any letter case), "//", and a non-empty host that ends at the first    *)
(* "/", "?" or "#" and holds no space.  Every other input string of the    *)
(* model has no scheme at all and is rejected by the parser.               *)
(***************************************************************************)
urlProtocol(url) ==
  LET low == toLowerCase(url)
  IN IF startsWith(low, "https://") THEN "https:"
     ELSE IF startsWith(low, "http://") THEN "http:"
     ELSE ""

urlAfterScheme(url) ==
  SubSeq(url, Len(urlProtocol(url)) + 3, Len(url))

urlHostEnd(rest) ==
  LET stops == {i \in 1..Len(rest) : charAt(rest, i) \in {"/", "?", "#"}}
  IN IF stops = {} THEN Len(rest) + 1 ELSE CHOOSE i \in stops : \A j \in stops : i <= j

\* URL.hostname: the host, lower-cased by the parser
urlHostname(url) ==
  LET rest == urlAfterScheme(url)
  IN toLowerCase(SubSeq(rest, 1, urlHostEnd(rest) - 1))

isValidUrl(url) ==
  /\ urlProtocol(url) # ""
  /\ urlHostname(url) # ""
  /\ ~includes(urlHostname(url), " ")

(***************************************************************************)
(* Inputs.  Urls are the strings callers pass while calls overlap;         *)
(* AllUrls adds the strings that exercise every branch of the classifier.  *)
(***************************************************************************)
Urls ==
  { "https://www.example.com/post",
    "https://twitter.com/u/1",
    "not a url" }

AllUrls ==
  Urls \cup
  { "https://youtu.be/abc",
    "https://site.example/posts/1",
    "https://Example.com/Doc.PDF",
    "https://www.example.com/doc.pdf",
    "https://example.com/doc.pdf?page=2",
    "https://www.youtube.com/watch?v=abc",
    "https://youtube.com/guide.pdf",
    "https://YouTube.com/watch?v=&t=1",
    "https://box.com/report.pdf",
    "https://x.com/u/1",
    "https://twitter.com/newsletter",
    "https://news.substack.com/p/1",
    "https://substack.com/doc.pdf",
    "https://Example.com/Newsletter/3",
    "https://awww.example.com/",
    "http://blog.example.com/book.epub",
    "example.com/doc.pdf",
    "youtube.com/watch?v=abc",
    "http://",
    "" }

(***************************************************************************)
(* detectContentType (contentExtractor.ts 169-187).                        *)
(***************************************************************************)
\* variants of detectContentType with a slip in them
detectContentTypeCaseSensitive(url) ==
  IF includes(url, "youtube.com") \/ includes(url, "youtu.be") THEN "YOUTUBE"
  ELSE IF includes(url, "twitter.com") \/ includes(url, "x.com") THEN "TWITTER"
  ELSE IF endsWith(url, ".pdf") THEN "PDF"
  ELSE IF includes(url, "newsletter") \/ includes(url, "substack") THEN "NEWSLETTER"
  ELSE "ARTICLE"

detectContentTypeNewsletterFirst(url) ==
  LET urlLower == toLowerCase(url)
  IN IF includes(urlLower, "youtube.com") \/ includes(urlLower, "youtu.be") THEN "YOUTUBE"
     ELSE IF includes(urlLower, "twitter.com") \/ includes(urlLower, "x.com") THEN "TWITTER"
     ELSE IF includes(urlLower, "newsletter") \/ includes(urlLower, "substack") THEN "NEWSLETTER"
     ELSE IF endsWith(urlLower, ".pdf") THEN "PDF"
     ELSE "ARTICLE"

detectContentType(url) ==
  LET urlLower == toLowerCase(url)
  IN IF includes(urlLower, "youtube.com") \/ includes(urlLower, "youtu.be") THEN "YOUTUBE"
     ELSE IF includes(urlLower, "twitter.com") \/ includes(urlLower, "x.com") THEN "TWITTER"
     ELSE IF endsWith(urlLower, ".pdf") THEN "PDF"
     ELSE IF includes(urlLower, "newsletter") \/ includes(urlLower, "substack") THEN "NEWSLETTER"
     ELSE "ARTICLE"

(***************************************************************************)
(* extractTitleFromUrl (contentExtractor.ts 309-316).                      *)
(***************************************************************************)
extractTitleFromUrl(url) ==
  IF isValidUrl(url) THEN replaceFirst(urlHostname(url), "www.", "") ELSE "Untitled"

\* the minimal record of the catch blocks: these two keys and no other
minimalMetadata(url) ==
  [contentType |-> detectContentType(url), title |-> extractTitleFromUrl(url)]

\* the video-id pattern of extractYouTubeMetadata (line 683), case-sensitive
hasVideoId(url) ==
  \E pat \in {"youtube.com/watch?v=", "youtu.be/"} :
    \E i \in 1..Len(url) :
      /\ i + Len(pat) <= Len(url)
      /\ SubSeq(url, i, i + Len(pat) - 1) = pat
      /\ charAt(url, i + Len(pat)) \notin {"&", " "}

\* tryDetectTotalPages (lines 789-822): every branch returns undefined
tryDetectTotalPages(url, contentType) == <<>>

(***************************************************************************)
(* The functions of the URL above, tabulated over the input strings.       *)
(***************************************************************************)
\* a function with its values computed, once and for all
tabulated(f) == f @@ <<>>

UrlFacts ==
  tabulated([url \in AllUrls |->
     [valid |-> isValidUrl(url),
      contentType |-> detectContentType(url),
      minimal |-> minimalMetadata(url),
      title |-> extractTitleFromUrl(url),
      videoId |-> hasVideoId(url)]])

(***************************************************************************)
(* What the network can answer.                                            *)
(***************************************************************************)
\* response heads: ok, status line and the content-length header (-1: none)
Responses ==
  { [ok |-> TRUE,  status |-> "200", statusText |-> "OK", contentLength |-> -1],
    [ok |-> TRUE,  status |-> "200", statusText |-> "OK", contentLength |-> MAX_RESPONSE_SIZE],
    [ok |-> TRUE,  status |-> "200", statusText |-> "OK", contentLength |-> MAX_RESPONSE_SIZE + 1],
    [ok |-> FALSE, status |-> "404", statusText |-> "Not Found", contentLength |-> -1],
    [ok |-> FALSE, status |-> "413", statusText |-> "Payload Too Large", contentLength |-> -1] }

\* parsed pages: what the selector lists of the metadata extractors find
\* ("" stands for no non-empty match), what Readability does with the page
\* ("article": it gives the article; "none": null; "throws") and what the
\* selectors of the fallback find; parses = FALSE: the DOM constructor throws
Documents ==
  { [parses |-> TRUE, title |-> "Post", description |-> "About", coverImage |-> "",
     siteName |-> "Blog", author |-> "Ann", publishedDate |-> "2024-01-01", readability |-> "article",
     article |-> [title |-> "Post", content |-> "<p>hi</p>", textContent |-> "hi"],
     containers |-> <<>>, body |-> "hi"],
    [parses |-> TRUE, title |-> "", description |-> "", coverImage |-> "https://cdn.example.com/c.png",
     siteName |-> "", author |-> "", publishedDate |-> "", readability |-> "none",
     article |-> [title |-> "", content |-> "", textContent |-> ""],
     containers |-> <<>>, body |-> ""],
    [parses |-> FALSE, title |-> "", description |-> "", coverImage |-> "",
     siteName |-> "", author |-> "", publishedDate |-> "", readability |-> "none",
     article |-> [title |-> "", content |-> "", textContent |-> ""],
     containers |-> <<>>, body |-> ""] }

\* bodies: the text length and the page it parses to; failed: the read rejects
Bodies ==
  { [failed |-> FALSE, length |-> 2048, doc |-> d] : d \in Documents } \cup
  { [failed |-> FALSE, length |-> l, doc |-> CHOOSE d \in Documents : d.title = "Post"]
      : l \in {MAX_RESPONSE_SIZE, MAX_RESPONSE_SIZE + 1} } \cup
  { [failed |-> TRUE, length |-> 0, doc |-> CHOOSE d \in Documents : ~d.parses] }

\* oEmbed JSON answers ("" stands for a missing field); valid = FALSE: json() throws
OEmbedData ==
  { [valid |-> TRUE, title |-> "Video", thumbnail_url |-> "https://i.ytimg.com/abc.jpg",
     author_name |-> "Chan"],
    [valid |-> TRUE, title |-> "", thumbnail_url |-> "", author_name |-> ""],
    [valid |-> FALSE, title |-> "", thumbnail_url |-> "", author_name |-> ""] }

(***************************************************************************)
(* fileProcessor.ts: file names and MIME types.  "" stands for an absent   *)
(* MIME type: the tests `mimeType &&` treat undefined and '' alike.        *)
(***************************************************************************)
ALLOWED_MIME_TYPES ==
  { "application/pdf", "text/html", "text/plain", "text/markdown",
    "application/epub+zip",
    "application/vnd.openxmlformats-officedocument.wordprocessingml.document",
    "application/msword" }

ALLOWED_EXTENSIONS ==
  { ".pdf", ".html", ".htm", ".txt", ".md", ".markdown", ".epub", ".docx", ".doc" }

\* String.prototype.lastIndexOf for one character: 1-based, 0 when absent
lastIndexOf(s, ch) ==
  LET hits == {i \in 1..Len(s) : charAt(s, i) = ch}
  IN IF hits = {} THEN 0 ELSE CHOOSE i \in hits : \A j \in hits : j <= i

\* fileName.toLowerCase().substring(fileName.lastIndexOf('.')): without a
\* dot the index is -1, which substring clamps to the start of the name
fileExtension(fileName) ==
  LET i == lastIndexOf(fileName, ".")
  IN SubSeq(toLowerCase(fileName), IF i = 0 THEN 1 ELSE i, Len(fileName))

\* variant of detectFileType that consults the extension before the MIME type
detectFileTypeExtensionFirst(fileName, mimeType) ==
  LET extension == fileExtension(fileName)
  IN IF extension = ".pdf" THEN "PDF"
     ELSE IF extension = ".epub" THEN "EBOOK"
     ELSE IF extension \in {".docx", ".doc"} THEN "BOOK"
     ELSE IF extension \in {".md", ".markdown", ".html", ".htm", ".txt"} THEN "ARTICLE"
     ELSE IF mimeType = "application/pdf" THEN "PDF"
     ELSE IF mimeType = "application/epub+zip" THEN "EBOOK"
     ELSE IF includes(mimeType, "wordprocessingml") \/ includes(mimeType, "msword") THEN "BOOK"
     ELSE "ARTICLE"

detectFileType(fileName, mimeType) ==
  LET extension == fileExtension(fileName)
  IN IF mimeType # "" /\ mimeType = "application/pdf" THEN "PDF"
     ELSE IF mimeType # "" /\ mimeType = "application/epub+zip" THEN "EBOOK"
     ELSE IF mimeType # "" /\ (includes(mimeType, "wordprocessingml") \/ includes(mimeType, "msword"))
     THEN "BOOK"
     ELSE IF mimeType # "" /\ mimeType = "text/markdown" THEN "ARTICLE"
     ELSE IF mimeType # "" /\ mimeType \in {"text/html", "text/plain"} THEN "ARTICLE"
     ELSE IF extension = ".pdf" THEN "PDF"
     ELSE IF extension = ".epub" THEN "EBOOK"
     ELSE IF extension \in {".docx", ".doc"} THEN "BOOK"
     ELSE IF extension \in {".md", ".markdown"} THEN "ARTICLE"
     ELSE IF extension \in {".html", ".htm"} THEN "ARTICLE"
     ELSE IF extension = ".txt" THEN "ARTICLE"
     ELSE "ARTICLE"

\* variant of isAllowedFileType that wants both the MIME type and the
\* extension to be allowed
isAllowedFileTypeBoth(fileName, mimeType) ==
  /\ mimeType # "" /\ mimeType \in ALLOWED_MIME_TYPES
  /\ \E ext \in ALLOWED_EXTENSIONS : fileExtension(fileName) = ext

isAllowedFileType(fileName, mimeType) ==
  IF mimeType # "" /\ mimeType \in ALLOWED_MIME_TYPES
  THEN TRUE
  ELSE \E ext \in ALLOWED_EXTENSIONS : fileExtension(fileName) = ext

\* fileName.replace(/\.[^/.]+$/, ''): a last dot followed by at least one
\* character, none of them a slash, is cut off with what follows it
titleFromFileName(fileName) ==
  LET i == lastIndexOf(fileName, ".")
  IN IF i > 0 /\ i < Len(fileName) /\ ~includes(SubSeq(fileName, i + 1, Len(fileName)), "/")
     THEN SubSeq(fileName, 1, i - 1)
     ELSE fileName

\* the uploads: file names and MIME types as multer hands them over
FileNames ==
  { "empty.txt", "doc.docx", "doc.exe", "Report.PDF", "book.epub", "page.html",
    "notes.md", "README", "archive.tar.gz", "old.doc" }

MimeTypes ==
  { "", "application/pdf", "application/epub+zip", "application/msword",
    "application/vnd.openxmlformats-officedocument.wordprocessingml.document",
    "application/x-msword-template",
    "text/plain", "text/html", "text/markdown", "application/octet-stream" }

\* detectFileType and isAllowedFileType, tabulated over the uploads
FileFacts ==
  tabulated([fileName \in FileNames |->
     tabulated([mimeType \in MimeTypes |->
        [contentType |-> detectFileType(fileName, mimeType),
         allowed |-> isAllowedFileType(fileName, mimeType),
         extension |-> fileExtension(fileName),
         title |-> titleFromFileName(fileName)]])])

(***************************************************************************)
(* Buffers and text.  A buffer is its sequence of bytes; the uploads hold  *)
(* ASCII bytes (no 0x60), two-byte sequences led by 0xC3, stray high bytes. *)
(***************************************************************************)
\* the printable ASCII characters 32..95 and 97..126
AsciiLow == " !\"#$%&'()*+,-./0123456789:;<=>?@ABCDEFGHIJKLMNOPQRSTUVWXYZ[\\]^_"

AsciiHigh == "abcdefghijklmnopqrstuvwxyz{|}~"

Latin1Chars == "ÀÁÂÃÄÅÆÇÈÉÊËÌÍÎÏÐÑÒÓÔÕÖ×ØÙÚÛÜÝÞßàáâãäåæçèéêëìíîïðñòóôõö÷øùúûüýþÿ"

\* U+FFFD, which the decoder puts for a byte that is not part of a sequence
ReplacementChar == "�"

isContinuation(b) == b >= 128 /\ b <= 191

\* what the byte at position i contributes to buffer.toString('utf-8')
decodedAt(bytes, i) ==
  LET b == bytes[i]
  IN IF b = 9 THEN "\t"
     ELSE IF b = 10 THEN "\n"
     ELSE IF b = 13 THEN "\r"
     ELSE IF b >= 32 /\ b <= 95 THEN charAt(AsciiLow, b - 31)
     ELSE IF b >= 97 /\ b <= 126 THEN charAt(AsciiHigh, b - 96)
     ELSE IF b = 195
     THEN IF i < Len(bytes) /\ isContinuation(bytes[i + 1])
          THEN charAt(Latin1Chars, bytes[i + 1] - 127)
          ELSE ReplacementChar
     ELSE IF isContinuation(b) /\ i > 1 /\ bytes[i - 1] = 195 THEN ""
     ELSE ReplacementChar

RECURSIVE decodeRange(_, _, _)
decodeRange(bytes, lo, hi) ==
  IF lo > hi THEN ""
  ELSE IF lo = hi THEN decodedAt(bytes, lo)
  ELSE CHOOSE text \in { decodeRange(bytes, lo, mid) \o decodeRange(bytes, mid + 1, hi)
                           : mid \in {(lo + hi) \div 2} } : TRUE

\* buffer.toString('utf-8')
decodeUtf8(bytes) == decodeRange(bytes, 1, Len(bytes))

\* the characters of the texts that the pattern \s matches
WhiteSpace == {" ", "\t", "\n", "\r"}

\* text.split(/\s+/).filter(word => word.length > 0).length: the number of
\* maximal runs of characters that are not white space
countWords(text) ==
  Cardinality({i \in 1..Len(text) :
                 /\ charAt(text, i) \notin WhiteSpace
                 /\ i = 1 \/ charAt(text, i - 1) \in WhiteSpace})

(***************************************************************************)
(* Math.ceil((n / 200) * 60) in IEEE 754 double precision.  A positive     *)
(* double is [mant, exp]: mant the bits of its 53-bit significand, most    *)
(* significant first, and the value is mant * 2^exp.  Every operation      *)
(* rounds its exact result to the nearest double, ties to even.            *)
(***************************************************************************)
MantBits == 52 + 1

RECURSIVE bitsValue(_)
bitsValue(bits) ==
  IF bits = <<>> THEN 0
  ELSE IF Len(bits) = 1 THEN bits[1]
  ELSE bitsValue(SubSeq(bits, 1, Len(bits) \div 2)) * (2 ^ (Len(bits) - Len(bits) \div 2))
         + bitsValue(SubSeq(bits, Len(bits) \div 2 + 1, Len(bits)))

RECURSIVE toBits(_)
toBits(n) == IF n = 0 THEN <<>> ELSE Append(toBits(n \div 2), n % 2)

\* the bits plus one; a carry out of the first bit makes the result longer
RECURSIVE incBits(_)
incBits(bits) ==
  IF bits = <<>> THEN <<1>>
  ELSE IF bits[Len(bits)] = 0 THEN Append(SubSeq(bits, 1, Len(bits) - 1), 1)
  ELSE Append(incBits(SubSeq(bits, 1, Len(bits) - 1)), 0)

\* round an exact binary number (bits * 2^exp, first bit 1) to MantBits bits
roundToDouble(bits, exp) ==
  IF Len(bits) <= MantBits
  THEN [mant |-> bits \o [i \in 1..(MantBits - Len(bits)) |-> 0],
        exp |-> exp - (MantBits - Len(bits))]
  ELSE LET kept == SubSeq(bits, 1, MantBits)
           half == bits[MantBits + 1]
           sticky == \E i \in (MantBits + 2)..Len(bits) : bits[i] = 1
           up == half = 1 /\ (sticky \/ kept[MantBits] = 1)
           sum == IF up THEN incBits(kept) ELSE kept
           drop == Len(bits) - MantBits
       IN IF Len(sum) > MantBits
          THEN [mant |-> SubSeq(sum, 1, MantBits), exp |-> exp + drop + 1]
          ELSE [mant |-> sum, exp |-> exp + drop]

\* the next n bits of the quotient r / d, for 0 <= r < d, and whether a
\* remainder is left after them
\* the n bits, and the remainder after them; a half of the bits at a time
RECURSIVE divideBits(_, _, _)
divideBits(r, d, n) ==
  IF n = 0 THEN [bits |-> <<>>, r |-> r]
  ELSE IF n = 1
  THEN IF 2 * r >= d THEN [bits |-> <<1>>, r |-> 2 * r - d] ELSE [bits |-> <<0>>, r |-> 2 * r]
  ELSE CHOOSE q \in
         { CHOOSE both \in { [bits |-> first.bits \o second.bits, r |-> second.r]
                             : second \in {divideBits(first.r, d, n - n \div 2)} } : TRUE
           : first \in {divideBits(r, d, n \div 2)} } : TRUE

longDivision(r, d, n) ==
  CHOOSE out \in { [bits |-> q.bits, rest |-> IF q.r = 0 THEN <<>> ELSE <<1>>]
                   : q \in {divideBits(r, d, n)} } : TRUE

\* the shift s with d * 2^s <= n < d * 2^(s+1), for n >= d
RECURSIVE shiftUp(_, _)
shiftUp(n, d) == IF n < 2 * d THEN 0 ELSE 1 + shiftUp(n, 2 * d)

\* the shift s with n * 2^s >= d > n * 2^(s-1), for 0 < n < d
RECURSIVE shiftDown(_, _)
shiftDown(n, d) == IF n >= d THEN 0 ELSE 1 + shiftDown(2 * n, d)

\* n / d for integers n > 0, d > 0
divDouble(n, d) ==
  LET up == IF n >= d THEN shiftUp(n, d) ELSE 0
      down == IF n >= d THEN 0 ELSE shiftDown(n, d)
      num == n * (2 ^ down)
      den == d * (2 ^ up)
      q == longDivision(num - den, den, MantBits)
  IN roundToDouble(<<1>> \o q.bits \o q.rest, (up - down) - MantBits - Len(q.rest))

\* the bits of bits * c, for a small integer c
\* the bits lo..hi times c plus the carry into bit hi: the bits of the
\* product at these positions and the carry out of bit lo
RECURSIVE mulRange(_, _, _, _, _)
mulRange(bits, lo, hi, c, carry) ==
  IF lo = hi
  THEN [bits |-> <<(bits[lo] * c + carry) % 2>>, carry |-> (bits[lo] * c + carry) \div 2]
  ELSE CHOOSE p \in
         { CHOOSE both \in { [bits |-> high.bits \o low.bits, carry |-> high.carry]
                             : high \in {mulRange(bits, lo, (lo + hi) \div 2, c, low.carry)} } : TRUE
           : low \in {mulRange(bits, (lo + hi) \div 2 + 1, hi, c, carry)} } : TRUE

mulBits(bits, i, c, carry) ==
  IF i = 0 THEN toBits(carry)
  ELSE CHOOSE out \in { toBits(p.carry) \o p.bits : p \in {mulRange(bits, 1, i, c, carry)} } : TRUE

\* x * c for a double x and a small integer c > 0
mulDouble(x, c) == roundToDouble(mulBits(x.mant, Len(x.mant), c, 0), x.exp)

\* Math.ceil(x) for a double x with 0 < x < 2^31
ceilDouble(x) ==
  LET frac == 0 - x.exp
  IN IF frac <= 0 THEN bitsValue(x.mant) * (2 ^ x.exp)
     ELSE IF frac >= MantBits THEN 1
     ELSE bitsValue(SubSeq(x.mant, 1, MantBits - frac))
          + (IF \E i \in (MantBits - frac + 1)..MantBits : x.mant[i] = 1 THEN 1 ELSE 0)

\* Math.ceil((wordCount / 200) * 60)
readingTime(wordCount) ==
  IF wordCount = 0 THEN 0 ELSE ceilDouble(mulDouble(divDouble(wordCount, 200), 60))

\* the most words a text of the inputs has
MaxWordCount == 830

\* readingTime on every word count of the inputs, computed once
ReadingTimes == tabulated([wordCount \in 0..MaxWordCount |-> readingTime(wordCount)])

(***************************************************************************)
(* Regular-expression replacement.  String.prototype.replace with a global *)
(* pattern scans from the left; m[i] describes the match that starts at    *)
(* position i: its length (0: the pattern does not match there) and what   *)
(* replaces it.  The scan goes on after the end of a match, so what a      *)
(* replacement leaves behind is not scanned again.                         *)
(***************************************************************************)
\* the least number of a set of numbers that is not empty
least(numbers) == CHOOSE j \in numbers : \A k \in numbers : j <= k

\* the first position at or after i where a match starts, Len(s) + 1 if
\* none; the positions are searched 64 at a time
RECURSIVE nextMatch(_, _, _)
nextMatch(s, m, i) ==
  IF i > Len(s) THEN Len(s) + 1
  ELSE CHOOSE next \in
         { IF starts = {} THEN nextMatch(s, m, i + 64) ELSE least(starts)
           : starts \in {{j \in i..(i + 63) : j <= Len(s) /\ m[j].len > 0}} }
         : TRUE

\* what is not matched is copied; the scan resumes after the match at j
RECURSIVE replaceFrom(_, _, _)
replaceFrom(s, m, i) ==
  IF i > Len(s) THEN ""
  ELSE CHOOSE out \in { SubSeq(s, i, j - 1)
                          \o (IF j > Len(s) THEN ""
                              ELSE m[j].rep \o replaceFrom(s, m, j + m[j].len))
                        : j \in {nextMatch(s, m, i)} } : TRUE

replaceMatches(s, m) == replaceFrom(s, m, 1)

\* the characters the pattern \w matches
WordChars ==
  {charAt(LowerChars, i) : i \in 1..Len(LowerChars)} \cup
  {charAt(UpperChars, i) : i \in 1..Len(UpperChars)} \cup
  {"0", "1", "2", "3", "4", "5", "6", "7", "8", "9", "_"}

Quotes == {"\"", "'"}

\* the first position at or after i whose character is not in chars (a
\* greedy run of a character class), Len(s) + 1 when the run reaches the end
skipWhile(s, i, chars) ==
  LET stops == {j \in i..Len(s) : charAt(s, j) \notin chars}
  IN IF stops = {} THEN Len(s) + 1 ELSE CHOOSE j \in stops : \A k \in stops : j <= k

\* the first position at or after i whose character is in chars
skipUntil(s, i, chars) ==
  LET stops == {j \in i..Len(s) : charAt(s, j) \in chars}
  IN IF stops = {} THEN Len(s) + 1 ELSE CHOOSE j \in stops : \A k \in stops : j <= k

\* s has pat at position i, letter case ignored (the flag i of a pattern)
hasAt(s, i, pat) ==
  i >= 1 /\ i + Len(pat) - 1 <= Len(s)
    /\ toLowerCase(SubSeq(s, i, i + Len(pat) - 1)) = pat

\* /<tag\b[^<]*(?:(?!<\/tag>)<[^<]*)*<\/tag>/gi at position i: the opening,
\* a word boundary, and everything up to the first closing tag after it
blockAt(s, i, tag) ==
  LET open == "<" \o tag
      close == "</" \o tag \o ">"
      from == i + Len(open)
      ends == {j \in from..Len(s) : hasAt(s, j, close)}
  IN IF hasAt(s, i, open) /\ (from > Len(s) \/ charAt(s, from) \notin WordChars) /\ ends # {}
     THEN (CHOOSE j \in ends : \A k \in ends : j <= k) + Len(close) - i
     ELSE 0

removeBlocks(html, tag) ==
  replaceMatches(html, [i \in 1..Len(html) |-> [len |-> blockAt(html, i, tag), rep |-> ""]])

\* /\s*on\w+\s*=\s*["'][^"']*["']/gi at position i
handlerAt(s, i) ==
  LET on == skipWhile(s, i, WhiteSpace)
      name == skipWhile(s, on + 2, WordChars)
      eq == skipWhile(s, name, WhiteSpace)
      open == skipWhile(s, eq + 1, WhiteSpace)
      close == skipUntil(s, open + 1, Quotes)
  IN IF /\ hasAt(s, on, "on")
        /\ name > on + 2
        /\ eq <= Len(s) /\ charAt(s, eq) = "="
        /\ open <= Len(s) /\ charAt(s, open) \in Quotes
        /\ close <= Len(s)
     THEN close - i + 1
     ELSE 0

removeHandlers(html) ==
  replaceMatches(html, [i \in 1..Len(html) |-> [len |-> handlerAt(html, i), rep |-> ""]])

\* html.replace(/word/gi, '') for a literal word
removeWord(html, word) ==
  replaceMatches(html,
    [i \in 1..Len(html) |-> [len |-> IF hasAt(html, i, word) THEN Len(word) ELSE 0, rep |-> ""]])

\* sanitizeHtml (lines 482-497): five replacements, one after the other
sanitizeHtml(html) ==
  removeWord(removeWord(removeHandlers(removeBlocks(removeBlocks(html, "script"), "style")),
                        "javascript:"), "data:text/html")

(***************************************************************************)
(* new URL(src, base).toString() on the sources of the inputs: an          *)
(* absolute URL, "//host/path", "/path", and a relative path that may      *)
(* start with "./" and "../" segments.  "" stands for a TypeError.         *)
(***************************************************************************)
\* what follows the host; the parser puts "/" for an empty path
urlPathAndRest(url) ==
  LET rest == urlAfterScheme(url)
      tail == SubSeq(rest, urlHostEnd(rest), Len(rest))
  IN IF startsWith(tail, "/") THEN tail ELSE "/" \o tail

\* URL.pathname
urlPathname(url) ==
  LET tail == urlPathAndRest(url)
  IN SubSeq(tail, 1, skipUntil(tail, 1, {"?", "#"}) - 1)

\* URL.origin
urlOrigin(url) == urlProtocol(url) \o "//" \o urlHostname(url)

\* URL.toString() of an http(s) URL
urlHref(url) == urlOrigin(url) \o urlPathAndRest(url)

\* src starts with a scheme: a letter, then letters, digits, "+", "-", ".", then ":"
hasScheme(src) ==
  LET colon == skipWhile(src, 1, (WordChars \ {"_"}) \cup {"+", "-", "."})
  IN colon > 1 /\ colon <= Len(src) /\ charAt(src, colon) = ":"
       /\ charAt(src, 1) \notin {"0", "1", "2", "3", "4", "5", "6", "7", "8", "9", "+", "-", "."}

\* the directory of a path: up to and with its last slash
pathDirectory(path) == SubSeq(path, 1, lastIndexOf(path, "/"))

\* the directory above a directory
parentDirectory(dir) ==
  IF dir = "/" THEN "/" ELSE pathDirectory(SubSeq(dir, 1, Len(dir) - 1))

RECURSIVE mergePath(_, _)
mergePath(dir, rel) ==
  IF startsWith(rel, "./") THEN mergePath(dir, SubSeq(rel, 3, Len(rel)))
  ELSE IF startsWith(rel, "../") THEN mergePath(parentDirectory(dir), SubSeq(rel, 4, Len(rel)))
  ELSE IF rel = "." THEN dir
  ELSE IF rel = ".." THEN parentDirectory(dir)
  ELSE dir \o rel

resolveUrl(src, base) ==
  IF hasScheme(src)
  THEN IF urlProtocol(src) = "" THEN src
       ELSE IF isValidUrl(src) THEN urlHref(src) ELSE ""
  ELSE IF startsWith(src, "//")
  THEN IF isValidUrl(urlProtocol(base) \o src) THEN urlHref(urlProtocol(base) \o src) ELSE ""
  ELSE IF startsWith(src, "/") THEN urlOrigin(base) \o src
  ELSE urlOrigin(base) \o mergePath(pathDirectory(urlPathname(base)), src)

(***************************************************************************)
(* normalizeImageUrls (lines 451-477).                                     *)
(***************************************************************************)
\* /<img([^>]+)src=["']([^"']+)["']([^>]*)>/gi at position i: the greedy
\* first group takes the rightmost "src=" before the first ">" after which
\* the rest of the pattern still matches.  at = 0: no match at i.
imgAt(s, i) ==
  LET gt == skipUntil(s, i + 4, {">"})
      fits(p) ==
        /\ hasAt(s, p, "src=")
        /\ p + 4 <= Len(s) /\ charAt(s, p + 4) \in Quotes
        /\ skipUntil(s, p + 5, Quotes) > p + 5
        /\ skipUntil(s, p + 5, Quotes) <= Len(s)
        /\ skipUntil(s, skipUntil(s, p + 5, Quotes) + 1, {">"}) <= Len(s)
      places == {p \in (i + 5)..gt : fits(p)}
      at == IF hasAt(s, i, "<img") /\ places # {}
            THEN CHOOSE p \in places : \A q \in places : q <= p ELSE 0
      quote == skipUntil(s, at + 5, Quotes)
      end == skipUntil(s, quote + 1, {">"})
  IN [at |-> at,
      len |-> IF at = 0 THEN 0 ELSE end - i + 1,
      before |-> IF at = 0 THEN "" ELSE SubSeq(s, i + 4, at - 1),
      src |-> IF at = 0 THEN "" ELSE SubSeq(s, at + 5, quote - 1),
      after |-> IF at = 0 THEN "" ELSE SubSeq(s, quote + 1, end - 1)]

\* the replacer of line 456 on a match
imgReplacement(match, img, baseUrl) ==
  IF startsWith(img.src, "data:") \/ startsWith(img.src, "http://")
       \/ startsWith(img.src, "https://")
  THEN match
  ELSE IF resolveUrl(img.src, baseUrl) = "" THEN match
  ELSE "<img" \o img.before \o "src=\"" \o resolveUrl(img.src, baseUrl) \o "\"" \o img.after \o ">"

normalizeImageUrls(html, baseUrl) ==
  IF ~isValidUrl(baseUrl) THEN html
  ELSE replaceMatches(html,
         [i \in 1..Len(html) |->
            LET img == imgAt(html, i)
            IN [len |-> img.len,
                rep |-> IF img.len = 0 THEN ""
                        ELSE imgReplacement(SubSeq(html, i, i + img.len - 1), img, baseUrl)]])

(***************************************************************************)
(* Errors, as the catch blocks see them: name and message.                 *)
(***************************************************************************)
NoError == [name |-> "", message |-> ""]
AbortError == [name |-> "AbortError", message |-> "This operation was aborted"]
FetchFailed == [name |-> "TypeError", message |-> "fetch failed"]
BodyFailed == [name |-> "TypeError", message |-> "terminated"]
ParseFailed == [name |-> "Error", message |-> "parse failed"]
InvalidUrl(url) == [name |-> "Error", message |-> "Invalid URL: " \o url]
StatusError(r) ==
  [name |-> "Error", message |-> "Failed to fetch: " \o r.status \o " " \o r.statusText]
TooLargeError(n) ==
  [name |-> "Error", message |-> "Response too large: " \o ToString(n) \o " bytes"]
TimeoutError ==
  [name |-> "Error", message |-> "Request timeout after " \o ToString(FETCH_TIMEOUT) \o "ms"]

(***************************************************************************)
(* Metadata records.  A key is in the DOMAIN of a record exactly when the  *)
(* field is set to a defined value.                                        *)
(***************************************************************************)
Opt(key, value) == IF value = "" THEN <<>> ELSE (key :> value)

\* extractFavicon's fallback (lines 254-264)
extractFavicon(url) == urlProtocol(url) \o "//" \o urlHostname(url) \o "/favicon.ico"

\* String.prototype.trim
trim(s) ==
  LET inked == {i \in 1..Len(s) : charAt(s, i) \notin WhiteSpace}
  IN IF inked = {} THEN ""
     ELSE SubSeq(s, CHOOSE i \in inked : \A j \in inked : i <= j,
                    CHOOSE i \in inked : \A j \in inked : j <= i)

\* the test /<[a-z][\s\S]*>/i of line 119
hasMarkup(html) ==
  \E i \in 1..Len(html) :
    /\ charAt(html, i) = "<"
    /\ i < Len(html) /\ toLowerChar(charAt(html, i + 1)) \in
         {charAt(LowerChars, k) : k \in 1..Len(LowerChars)}
    /\ \E j \in (i + 2)..Len(html) : charAt(html, j) = ">"

\* processTextNode (lines 525-568): the tokens of a text node, each run of
\* characters that are not white space in a span numbered from n on
RECURSIVE wrapText(_, _, _)
wrapText(text, i, n) ==
  IF i > Len(text) THEN ""
  ELSE IF charAt(text, i) \in WhiteSpace
  THEN SubSeq(text, i, skipWhile(text, i, WhiteSpace) - 1)
         \o wrapText(text, skipWhile(text, i, WhiteSpace), n)
  ELSE "<span id=\"ritl-w-" \o ToString(n) \o "\">"
         \o SubSeq(text, i, skipUntil(text, i, WhiteSpace) - 1) \o "</span>"
         \o wrapText(text, skipUntil(text, i, WhiteSpace), n + 1)

\* wrapTokensInSpans (lines 503-613) on fragments whose "<" all open a tag
\* and whose text holds no "&": the tags stay, a text node that is not all
\* white space has its tokens wrapped, numbered through the fragment
RECURSIVE wrapFrom(_, _, _)
wrapFrom(html, i, n) ==
  IF i > Len(html) THEN ""
  ELSE IF charAt(html, i) = "<"
  THEN SubSeq(html, i, skipUntil(html, i, {">"}))
         \o wrapFrom(html, skipUntil(html, i, {">"}) + 1, n)
  ELSE LET end == skipUntil(html, i, {"<"})
           text == SubSeq(html, i, end - 1)
       IN IF trim(text) = "" THEN text \o wrapFrom(html, end, n)
          ELSE wrapText(text, 1, n) \o wrapFrom(html, end, n + countWords(text))

wrapTokensInSpans(html) == wrapFrom(html, 1, 0)

\* extractImagesFromHtml (lines 618-631): the sources, in the order of the
\* tags, that are no data URI; the pattern is that of normalizeImageUrls
\* the first position at or after i where an img tag starts, 0 if none
RECURSIVE nextImg(_, _)
nextImg(html, i) ==
  IF i > Len(html) THEN 0
  ELSE CHOOSE next \in
         { IF starts = {} THEN nextImg(html, i + 64) ELSE least(starts)
           : starts \in {{j \in i..(i + 63) :
                            j <= Len(html) /\ imgAt(html, j).len > 0}} }
         : TRUE

RECURSIVE imagesFrom(_, _)
imagesFrom(html, i) ==
  CHOOSE images \in
    { IF j = 0 THEN <<>>
      ELSE CHOOSE rest \in
             { (IF startsWith(img.src, "data:") THEN <<>> ELSE <<img.src>>)
                 \o imagesFrom(html, j + img.len) : img \in {imgAt(html, j)} } : TRUE
      : j \in {nextImg(html, i)} } : TRUE

extractImagesFromHtml(html) ==
  LET images == imagesFrom(html, 1)
  IN SubSeq(images, 1, IF Len(images) < 10 THEN Len(images) ELSE 10)

\* extractContentFallback (lines 636-675): doc.containers holds, in the
\* order of contentSelectors, the text of the first element each selector
\* finds, the unwanted elements taken out ("": no element, or no text)
extractContentFallback(doc) ==
  LET long == {n \in 1..Len(doc.containers) : Len(trim(doc.containers[n])) > 100}
  IN IF long # {}
     THEN trim(doc.containers[CHOOSE n \in long : \A m \in long : n <= m])
     ELSE doc.body

\* wordCount and readingTime, set together when the text is not empty
\* (lines 133-139 and 145-149)
wordCounts(text) ==
  IF text = "" THEN <<>>
  ELSE [wordCount |-> countWords(text), readingTime |-> ReadingTimes[countWords(text)]]

\* metadata.content of line 124
articleContent(url, article) ==
  CHOOSE content \in
    { IF wrapped # "" THEN wrapped ELSE article.textContent
        : wrapped \in { IF normalized # "" /\ hasMarkup(normalized)
                          THEN wrapTokensInSpans(normalized) ELSE normalized
                            : normalized \in { normalizeImageUrls(sanitized, url)
                                                 : sanitized \in {sanitizeHtml(article.content)} } } }
    : TRUE

\* what lines 110-140 set when Readability gives an article
articleFields(url, article) ==
  ("content" :> articleContent(url, article))
    @@ Opt("title", article.title)
    @@ (IF article.content # "" THEN ("images" :> extractImagesFromHtml(article.content)) ELSE <<>>)
    @@ wordCounts(article.textContent)

\* what the catch of lines 141-150 sets when Readability throws
fallbackFields(doc) ==
  CHOOSE fields \in { ("content" :> content) @@ wordCounts(content)
                        : content \in {extractContentFallback(doc)} } : TRUE

\* the record of the generic HTML path (lines 93-157); totalPages is what
\* tryDetectTotalPages gave (lines 72-75)
pageMetadata(url, contentType, doc) ==
  (IF doc.readability = "article" THEN articleFields(url, doc.article)
   ELSE IF doc.readability = "throws" THEN fallbackFields(doc)
   ELSE <<>>)
    @@ [contentType |-> contentType, favicon |-> extractFavicon(url)]
    @@ Opt("title", doc.title) @@ Opt("description", doc.description)
    @@ Opt("coverImage", doc.coverImage) @@ Opt("siteName", doc.siteName)
    @@ Opt("author", doc.author) @@ Opt("publishedDate", doc.publishedDate)
    @@ tryDetectTotalPages(url, contentType)

\* pageMetadata, tabulated over the URLs and the pages of the calls
PageFacts ==
  tabulated([url \in AllUrls |->
     tabulated([doc \in Documents |-> pageMetadata(url, UrlFacts[url].contentType, doc)])])

\* extractTwitterMetadata's success record (lines 761-768)
twitterMetadata(url, doc) ==
  [contentType |-> "TWITTER",
   title |-> IF doc.title # "" THEN doc.title ELSE UrlFacts[url].title,
   siteName |-> "Twitter"]
    @@ Opt("description", doc.description) @@ Opt("coverImage", doc.coverImage)
    @@ Opt("author", doc.author)

\* extractYouTubeMetadata's page-fallback record (lines 729-735)
youTubePageMetadata(url, doc) ==
  [contentType |-> "YOUTUBE",
   title |-> IF doc.title # "" THEN doc.title ELSE UrlFacts[url].title,
   siteName |-> "YouTube"]
    @@ Opt("description", doc.description) @@ Opt("coverImage", doc.coverImage)

\* extractYouTubeMetadata's oEmbed record (lines 709-716)
youTubeOEmbedMetadata(url, data) ==
  [contentType |-> "YOUTUBE",
   title |-> IF data.title # "" THEN data.title ELSE UrlFacts[url].title,
   siteName |-> "YouTube"]
    @@ Opt("coverImage", data.thumbnail_url) @@ Opt("author", data.author_name)

(***************************************************************************)
(* State.                                                                  *)
(*   contentCache  the Map of line 28: a function whose DOMAIN is the set  *)
(*                 of keys, each entry {data, timestamp}                   *)
(*   now           Date.now()                                              *)
(*   calls         the extractContent calls: where each one stands (pc),   *)
(*                 its arguments and locals, its result, and a record of   *)
(*                 what happened to it (requests sent, delays waited, ...)  *)
(*   faultsLeft    how many more failures the network and the parsers      *)
(*                 may produce                                             *)
(***************************************************************************)
\* two calls, made one after the other or overlapping
Calls == {1, 2}

HalfTTL == CACHE_TTL \div 2

IdleCall ==
  [pc |-> "idle", url |-> "", useCache |-> FALSE, ctx |-> "", attempt |-> 0,
   lastError |-> NoError, timer |-> 0, result |-> <<>>, raised |-> FALSE,
   \* what happened to the call
   startedAt |-> 0,        \* Date.now() when it was made
   after |-> {},           \* the calls that had returned when it was made
   age |-> -1,             \* age of the cache entry of its URL then (-1: none)
   seen |-> <<>>,          \* the record of that entry
   hit |-> FALSE,          \* it returned at line 47
   classified |-> FALSE,   \* it ran line 52
   requests |-> 0,         \* page requests sent (line 330)
   oembed |-> 0,           \* oEmbed requests sent (line 698)
   waits |-> <<>>,         \* backoff delays slept (line 380)
   failures |-> 0,         \* attempts that failed
   lastKind |-> "",        \* how the last failed attempt failed
   lastFailure |-> NoError,\* the error of the last failed attempt
   fetched |-> FALSE,      \* fetchWithRetry returned a body
   thrown |-> NoError]     \* what fetchWithRetry or the parser threw

\* no file upload is being handled (routes.ts line 106: no file)
NoUpload == [pc |-> "idle"]

\* no fetched page is being processed
NoPage == [pc |-> "idle"]

\* NULL in a column of the database
Null == -1

\* the slots for the requests to the routes
Requests == {1, 2}

\* no request has arrived in the slot
NoRequest == [pc |-> "idle"]

\* the AccessToken table: a token of each of two users, neither revoked
IssuedTokens ==
  [token \in {"t1", "t2"} |->
     [userId |-> IF token = "t1" THEN "u1" ELSE "u2", revokedAt |-> Null]]

\* the database and the storage before any request
ServerIdle ==
  /\ accessTokens = IssuedTokens
  /\ articles = <<>>
  /\ storage = {}
  /\ requests = [r \in Requests |-> NoRequest]

Init ==
  /\ ServerIdle
  /\ contentCache = <<>>
  /\ now = 0
  /\ calls = [c \in Calls |-> IdleCall]
  /\ faultsLeft = MaxFaults
  /\ upload = NoUpload
  /\ page = NoPage

InitAll ==
  /\ ServerIdle
  /\ contentCache = <<>>
  /\ now = 0
  /\ calls = [c \in Calls |-> IdleCall]
  /\ faultsLeft = MAX_RETRIES + 2
  /\ upload = NoUpload
  /\ page = NoPage

(***************************************************************************)
(* The cache (lines 43-49 and the three contentCache.set calls).           *)
(***************************************************************************)
\* variants of cacheFresh with a slip in them
cacheFreshInclusive(entry, t) == t - entry.timestamp <= CACHE_TTL
cacheFreshSeconds(entry, t) == t - entry.timestamp < CACHE_TTL \div 1000

\* line 46: the entry is served while its age is below the TTL
cacheFresh(entry, t) == t - entry.timestamp < CACHE_TTL

cacheHit(cache, url, t) == url \in DOMAIN cache /\ cacheFresh(cache[url], t)

\* variant of cacheSet that keeps an entry already there
cacheSetIfAbsent(cache, url, data, t) == cache @@ (url :> [data |-> data, timestamp |-> t])

\* Map.set: the entry of the key is replaced whole
cacheSet(cache, url, data, t) == (url :> [data |-> data, timestamp |-> t]) @@ cache

\* variant of cacheStore that stores whatever useCache says
cacheStoreAlways(cache, useCache, url, data, t) == cacheSet(cache, url, data, t)

\* lines 57, 65, 153: `if (useCache) contentCache.set(...)`
cacheStore(cache, useCache, url, data, t) ==
  IF useCache THEN cacheSet(cache, url, data, t) ELSE cache

(***************************************************************************)
(* fetchWithRetry (lines 321-386).                                         *)
(***************************************************************************)
\* variant of isTimeout that tests for another error name
isTimeoutWrongName(error) == error.name = "TimeoutError"

\* lines 368 and 372: the errors that end the call at once
isTimeout(error) == error.name = "AbortError"
isTooLarge(error) == includes(error.message, "too large")

\* variant of retryDelay that grows linearly
retryDelayLinear(attempt) == RETRY_DELAY_BASE * (attempt + 1)

\* line 378: RETRY_DELAY_BASE * 2^attempt
retryDelay(attempt) == RETRY_DELAY_BASE * (2 ^ attempt)

\* lines 324 and 377: another attempt follows while attempt < retries
mayRetry(attempt) == attempt < MAX_RETRIES

\* lines 351 and 359: the size ceiling
overLimit(n) == n > MAX_RESPONSE_SIZE

\* a new attempt: the request is sent and the abort timer armed (lines 327-341)
sendRequest(k) ==
  [k EXCEPT !.pc = "fetching", !.timer = FETCH_TIMEOUT, !.requests = @ + 1]

(***************************************************************************)
(* How a call ends.                                                        *)
(***************************************************************************)
\* variant of outerCatch that passes the error on to the caller
outerCatchRethrows(k, error) ==
  [k EXCEPT !.pc = "done", !.timer = 0, !.thrown = error, !.raised = TRUE]

\* the catch of extractContent (lines 158-166): the error is swallowed and
\* the minimal record returned
outerCatch(k, error) ==
  [k EXCEPT !.pc = "done", !.timer = 0, !.thrown = error,
            !.result = UrlFacts[k.url].minimal]

\* the catch of an adapter (lines 736-741 and 769-775)
adapterCatch(k, contentType) ==
  [contentType |-> contentType, title |-> UrlFacts[k.url].title]

\* the record is stored and returned (lines 57-60, 65-68, 152-157)
Return(c, k, data) ==
  /\ calls' = [calls EXCEPT ![c] = [k EXCEPT !.pc = "done", !.timer = 0, !.result = data]]
  /\ contentCache' = cacheStore(contentCache, k.useCache, k.url, data, now)

\* fetchWithRetry or the parser threw `error`: the catch of the caller
Thrown(c, k, error) ==
  IF k.ctx = "page"
  THEN /\ calls' = [calls EXCEPT ![c] = outerCatch(k, error)]
       /\ UNCHANGED contentCache
  ELSE Return(c, [k EXCEPT !.thrown = error],
              adapterCatch(k, IF k.ctx = "twitter" THEN "TWITTER" ELSE "YOUTUBE"))

\* the catch block of an attempt (lines 364-382) and the end of the loop (385);
\* kind says what happened on the wire: "timeout", "oversize" or "other"
AttemptFailed(c, error, kind) ==
  LET k == [calls[c] EXCEPT !.lastError = error, !.failures = @ + 1,
                            !.lastKind = kind, !.lastFailure = error]
  IN IF isTimeout(error) THEN Thrown(c, k, TimeoutError)
     ELSE IF isTooLarge(error) THEN Thrown(c, k, error)
     ELSE IF mayRetry(k.attempt)
     THEN /\ calls' = [calls EXCEPT ![c] =
               [k EXCEPT !.pc = "backoff",
                         !.timer = retryDelay(k.attempt),
                         !.waits = Append(@, retryDelay(k.attempt))]]
          /\ UNCHANGED contentCache
     ELSE Thrown(c, k, k.lastError)

\* fetchWithRetry returned the text: the rest of its caller
\* (lines 80-157 for the page, 726-735 for YouTube, 758-768 for Twitter)
Fetched(c, k, doc) ==
  LET j == [k EXCEPT !.fetched = TRUE, !.lastError = NoError,
                     !.lastKind = "", !.lastFailure = NoError]
  IN IF ~doc.parses THEN Thrown(c, j, ParseFailed)
     ELSE IF k.ctx = "page"
     THEN Return(c, j, PageFacts[k.url][doc])
     ELSE IF k.ctx = "twitter" THEN Return(c, j, twitterMetadata(k.url, doc))
     ELSE Return(c, j, youTubePageMetadata(k.url, doc))

\* a step that is a failure of the network or of a parser uses up one of
\* the failures that may still happen
Fault(isFault) ==
  /\ isFault => faultsLeft > 0
  /\ faultsLeft' = IF isFault THEN faultsLeft - 1 ELSE faultsLeft

(***************************************************************************)
(* Actions.                                                                *)
(***************************************************************************)
\* extractContent(url, useCache) up to its first await (lines 34-78, and
\* extractYouTubeMetadata 680-703 / extractTwitterMetadata 754-757)
Start(c, url, useCache) ==
  LET k == [IdleCall EXCEPT
              !.url = url, !.useCache = useCache, !.startedAt = now,
              !.after = {d \in Calls : calls[d].pc = "done"},
              !.age = IF url \in DOMAIN contentCache
                      THEN now - contentCache[url].timestamp ELSE -1,
              !.seen = IF url \in DOMAIN contentCache
                       THEN contentCache[url].data ELSE <<>>]
      ct == UrlFacts[url].contentType
      j == [k EXCEPT !.classified = TRUE,
                     !.ctx = IF ct = "YOUTUBE" THEN "youtube"
                             ELSE IF ct = "TWITTER" THEN "twitter" ELSE "page"]
  IN /\ calls[c].pc = "idle"
     /\ \A d \in Calls : d < c => calls[d].pc # "idle"
     /\ IF ~UrlFacts[url].valid
        THEN \* line 40 throws inside the try of line 35
             /\ calls' = [calls EXCEPT ![c] = outerCatch(k, InvalidUrl(url))]
             /\ UNCHANGED contentCache
        ELSE IF useCache /\ cacheHit(contentCache, url, now)
        THEN /\ calls' = [calls EXCEPT ![c] =
                  [k EXCEPT !.pc = "done", !.result = contentCache[url].data, !.hit = TRUE]]
             /\ UNCHANGED contentCache
        ELSE IF ct = "YOUTUBE"
        THEN IF ~UrlFacts[url].videoId
             THEN Return(c, j, adapterCatch(j, "YOUTUBE"))
             ELSE /\ calls' = [calls EXCEPT ![c] =
                       [j EXCEPT !.pc = "oembed", !.oembed = 1,
                                 !.timer = OEMBED_TIMEOUT]]
                  /\ UNCHANGED contentCache
        ELSE /\ calls' = [calls EXCEPT ![c] = sendRequest(j)]
             /\ UNCHANGED contentCache
     /\ UNCHANGED <<now, faultsLeft>>
     /\ UNCHANGED <<upload, page>>
     /\ UNCHANGED server

\* the oEmbed request settles (lines 698-721): a non-2xx answer or a network
\* error leads to the page fallback of line 725
OEmbedResponse(c, ok) ==
  /\ calls[c].pc = "oembed"
  /\ Fault(~ok)
  /\ calls' = [calls EXCEPT ![c] =
       IF ok THEN [@ EXCEPT !.pc = "oembedBody", !.timer = 0] ELSE sendRequest(@)]
  /\ UNCHANGED <<contentCache, now>>
  /\ UNCHANGED <<upload, page>>
  /\ UNCHANGED server

\* the 10 s timer of line 695 aborts the oEmbed request
OEmbedAbort(c) ==
  /\ calls[c].pc = "oembed"
  /\ calls[c].timer = OEMBED_TIMEOUT
  /\ Fault(TRUE)
  /\ calls' = [calls EXCEPT ![c] = sendRequest(@)]
  /\ UNCHANGED <<contentCache, now>>
  /\ UNCHANGED <<upload, page>>
  /\ UNCHANGED server

\* response.json() settles (lines 708-716)
OEmbedBody(c, data) ==
  /\ calls[c].pc = "oembedBody"
  /\ Fault(~data.valid)
  /\ IF data.valid
     THEN Return(c, calls[c], youTubeOEmbedMetadata(calls[c].url, data))
     ELSE /\ calls' = [calls EXCEPT ![c] = sendRequest(@)]
          /\ UNCHANGED contentCache
  /\ UNCHANGED now
  /\ UNCHANGED <<upload, page>>
  /\ UNCHANGED server

\* the response head arrives and the timer is cleared (lines 343-353)
FetchResponse(c, r) ==
  /\ calls[c].pc = "fetching"
  /\ Fault(~r.ok \/ (r.contentLength # -1 /\ r.contentLength > MAX_RESPONSE_SIZE))
  /\ IF ~r.ok THEN AttemptFailed(c, StatusError(r), "other")
     ELSE IF r.contentLength # -1 /\ overLimit(r.contentLength)
     THEN AttemptFailed(c, TooLargeError(r.contentLength), "oversize")
     ELSE /\ calls' = [calls EXCEPT ![c] = [@ EXCEPT !.pc = "reading", !.timer = 0]]
          /\ UNCHANGED contentCache
  /\ UNCHANGED now
  /\ UNCHANGED <<upload, page>>
  /\ UNCHANGED server

\* the request fails before any response (connection error)
FetchError(c) ==
  /\ calls[c].pc = "fetching"
  /\ Fault(TRUE)
  /\ AttemptFailed(c, FetchFailed, "other")
  /\ UNCHANGED now
  /\ UNCHANGED <<upload, page>>
  /\ UNCHANGED server

\* the timer of line 328 fires and aborts the request
FetchAbort(c) ==
  /\ calls[c].pc = "fetching"
  /\ calls[c].timer = FETCH_TIMEOUT
  /\ Fault(TRUE)
  /\ AttemptFailed(c, AbortError, "timeout")
  /\ UNCHANGED now
  /\ UNCHANGED <<upload, page>>
  /\ UNCHANGED server

\* response.text() settles (lines 356-363)
BodyRead(c, b) ==
  /\ calls[c].pc = "reading"
  /\ Fault(b.failed \/ b.length > MAX_RESPONSE_SIZE \/ ~b.doc.parses)
  /\ IF b.failed THEN AttemptFailed(c, BodyFailed, "other")
     ELSE IF overLimit(b.length) THEN AttemptFailed(c, TooLargeError(b.length), "oversize")
     ELSE Fetched(c, calls[c], b.doc)
  /\ UNCHANGED now
  /\ UNCHANGED <<upload, page>>
  /\ UNCHANGED server

\* the backoff timer of line 380 fires: the loop goes to its next attempt
BackoffDone(c) ==
  /\ calls[c].pc = "backoff"
  /\ calls[c].timer > 0
  /\ calls' = [calls EXCEPT ![c] = sendRequest([@ EXCEPT !.attempt = @ + 1])]
  /\ UNCHANGED <<contentCache, now, faultsLeft>>
  /\ UNCHANGED <<upload, page>>
  /\ UNCHANGED server

\* the calls that have a timer armed (lines 328, 380, 695)
Armed == {c \in Calls : calls[c].timer > 0}

\* half a TTL passes; the armed timers run for seconds, so none is armed
\* across such a span
TimePasses ==
  /\ Armed = {}
  /\ now < MaxHalfDays * HalfTTL
  /\ now' = now + HalfTTL
  /\ UNCHANGED <<contentCache, calls, faultsLeft>>
  /\ UNCHANGED <<upload, page>>
  /\ UNCHANGED server

\* the steps of the oEmbed lookup
OEmbedStep(c) ==
  \/ \E ok \in BOOLEAN : OEmbedResponse(c, ok)
  \/ OEmbedAbort(c)
  \/ \E data \in OEmbedData : OEmbedBody(c, data)

\* the steps of fetchWithRetry
FetchStep(c) ==
  \/ \E r \in Responses : FetchResponse(c, r)
  \/ FetchError(c)
  \/ FetchAbort(c)
  \/ \E b \in Bodies : BodyRead(c, b)
  \/ BackoffDone(c)

\* overlapping calls on the strings of Urls
Next ==
  \/ \E c \in Calls, url \in Urls, useCache \in BOOLEAN : Start(c, url, useCache)
  \/ \E c \in Calls : FetchStep(c)
  \/ TimePasses

Spec == Init /\ [][Next]_vars

\* one call on any string of AllUrls, with failures enough to exhaust the retries
NextAll ==
  \/ \E url \in AllUrls, useCache \in BOOLEAN : Start(1, url, useCache)
  \/ \E c \in Calls : OEmbedStep(c) \/ FetchStep(c)
  \/ TimePasses

SpecAll == InitAll /\ [][NextAll]_vars

(***************************************************************************)
(* fileProcessor.ts: the parsers.  What the libraries (pdf-parse, mammoth, *)
(* jsdom with Readability, marked, epub) make of a buffer is an input.     *)
(***************************************************************************)
\* pdfParse(buffer): the text and the number of pages, or it throws
PdfParseResults ==
  { [ok |-> TRUE, text |-> "Page one\n\nPage two", numpages |-> 2],
    [ok |-> TRUE, text |-> "", numpages |-> 0],
    [ok |-> FALSE, text |-> "", numpages |-> 0] }

\* mammoth.extractRawText({buffer}): result.value, or it throws
MammothResults ==
  { [ok |-> TRUE, value |-> "Chapter 1\nIt was a dark night"],
    [ok |-> FALSE, value |-> ""] }

\* new JSDOM(html) and Readability.parse() in processHTML: the article, no
\* article (body is the text of the body element), or one of them throws
HtmlResults ==
  { [kind |-> "article", content |-> "<div><p>Hello world</p></div>",
     textContent |-> "Hello world", body |-> "Hello world"],
    [kind |-> "article", content |-> "", textContent |-> "Hello", body |-> "Hello"],
    [kind |-> "none", content |-> "", textContent |-> "", body |-> "Hello world"],
    [kind |-> "none", content |-> "", textContent |-> "", body |-> ""],
    [kind |-> "throws", content |-> "", textContent |-> "", body |-> ""] }

\* marked(markdown): the HTML, or it throws
MarkedResults ==
  { [ok |-> TRUE, html |-> "<h1>Notes</h1>\n"], [ok |-> FALSE, html |-> ""] }

\* epub.metadata as lines 153-163 read it ("": the field is missing)
EpubMetadata ==
  { [title |-> "Dune", creator |-> "Frank Herbert", description |-> "A novel"],
    [title |-> "", creator |-> "", description |-> ""] }

\* what getChapter hands to its callback for a spine item: an error, or the
\* markup of the chapter with the text of its body
Chapters ==
  { [err |-> TRUE, markup |-> "", text |-> ""],
    [err |-> FALSE, markup |-> "", text |-> ""],
    [err |-> FALSE, markup |-> "<br>", text |-> ""],
    [err |-> FALSE, markup |-> "<p>One</p>", text |-> "One"],
    [err |-> FALSE, markup |-> "<p> Two </p>", text |-> " Two "] }

\* processHTML (lines 87-106) on the decoded buffer
processHTML(html, r) ==
  IF r.kind = "throws" THEN html
  ELSE IF r.kind = "article"
  THEN (IF r.content # "" THEN r.content ELSE r.textContent)
  ELSE r.body

\* variant of processTXT that trims the text
processTXTTrimmed(bytes) == trim(decodeUtf8(bytes))

\* processTXT (lines 111-118)
processTXT(bytes) == decodeUtf8(bytes)

\* processMD (lines 123-133) on the decoded buffer
processMD(markdown, r) == IF r.ok THEN r.html ELSE markdown

\* what a parser hands back to extractContentFromFile: the content, the
\* pages (-1: undefined) and the metadata of an EPUB
Parsed(content, totalPages, metadata) ==
  [content |-> content, totalPages |-> totalPages, metadata |-> metadata]

NoMetadata == [title |-> "", creator |-> "", description |-> ""]

\* variant of fileRecord that always sets totalPages
fileRecordPagesAlways(contentType, fileName, parsed) ==
  [contentType |-> contentType,
   title |-> IF parsed.metadata.title # "" THEN parsed.metadata.title
             ELSE titleFromFileName(fileName),
   content |-> parsed.content,
   wordCount |-> countWords(parsed.content),
   readingTime |-> ReadingTimes[countWords(parsed.content)],
   totalPages |-> IF parsed.totalPages >= 0 THEN parsed.totalPages ELSE 0]
    @@ Opt("description", parsed.metadata.description)
    @@ Opt("author", parsed.metadata.creator)

\* the record of lines 294-311
fileRecord(contentType, fileName, parsed) ==
  [contentType |-> contentType,
   title |-> IF parsed.metadata.title # "" THEN parsed.metadata.title
             ELSE titleFromFileName(fileName),
   content |-> parsed.content,
   wordCount |-> countWords(parsed.content),
   readingTime |-> ReadingTimes[countWords(parsed.content)]]
    @@ Opt("description", parsed.metadata.description)
    @@ (IF parsed.totalPages >= 0 THEN ("totalPages" :> parsed.totalPages) ELSE <<>>)
    @@ Opt("author", parsed.metadata.creator)

\* variant of minimalFileRecord that also carries the counts of an empty text
minimalFileRecordWithCounts(contentType, fileName) ==
  [contentType |-> contentType, title |-> titleFromFileName(fileName), content |-> "",
   wordCount |-> 0, readingTime |-> 0]

\* the record of the catch (lines 312-320)
minimalFileRecord(contentType, fileName) ==
  [contentType |-> contentType, title |-> titleFromFileName(fileName), content |-> ""]

\* the parser extractContentFromFile dispatches to (lines 256-292);
\* "raw": the buffer is decoded without a parser
selectParser(contentType, extension) ==
  IF contentType = "PDF" THEN "pdf"
  ELSE IF contentType = "EBOOK" THEN (IF extension = ".epub" THEN "epub" ELSE "raw")
  ELSE IF contentType = "BOOK"
  THEN (IF extension \in {".docx", ".doc"} THEN "docx" ELSE "raw")
  ELSE IF extension \in {".html", ".htm"} THEN "html"
  ELSE IF extension \in {".md", ".markdown"} THEN "markdown"
  ELSE "txt"

(***************************************************************************)
(* POST /articles with a file (routes.ts 106-151) and                      *)
(* extractContentFromFile (fileProcessor.ts 243-321).  The request is in   *)
(* `upload`; its steps are the synchronous runs between two awaits.        *)
(***************************************************************************)
\* the longest spine of an EPUB
MaxSpine == 3

\* unit repeated n times (empty: the empty string or sequence)
RECURSIVE repeat(_, _, _)
repeat(unit, n, empty) ==
  IF n = 0 THEN empty
  ELSE LET half == repeat(unit, n \div 2, empty)
       IN half \o half \o (IF n % 2 = 1 THEN unit ELSE empty)

\* the bytes of the uploaded files: empty, "hello world\n", "café" with a
\* stray byte 0xFF, "<p>Hi</p>", and "w " 830 times
Buffers ==
  { <<>>,
    <<104, 101, 108, 108, 111, 32, 119, 111, 114, 108, 100, 10>>,
    <<99, 97, 102, 195, 169, 32, 255, 32, 111, 107>>,
    <<60, 112, 62, 72, 105, 60, 47, 112, 62>>,
    repeat(<<119, 32>>, 830, <<>>) }

NoEpub == [metadata |-> NoMetadata, spineLength |-> 0, index |-> 0,
           fullText |-> "", chapterCount |-> 0,
           seen |-> <<>>]   \* what getChapter gave for the spine items so far

\* the request as multer hands it to the handler (line 106)
ReceivedFile(fileName, mimeType, buffer) ==
  [pc |-> "received", fileName |-> fileName, mimeType |-> mimeType, buffer |-> buffer,
   status |-> 0,         \* the HTTP status answered (0: none yet)
   hashed |-> FALSE,     \* generateFileHash ran (line 113)
   uploaded |-> FALSE,   \* the blob is in storage (line 131)
   parser |-> "",        \* the parser extractContentFromFile dispatched to
   failure |-> "",       \* which parser failed inside, if one did
   epub |-> NoEpub,
   result |-> <<>>,      \* what extractContentFromFile returned
   raised |-> FALSE]     \* extractContentFromFile threw to the route

\* variant of fileCatch that passes the error on
fileCatchRethrows(u, kind) ==
  [u EXCEPT !.failure = kind, !.raised = TRUE]

\* the catch of extractContentFromFile (lines 312-320)
fileCatch(u, kind) ==
  [u EXCEPT !.failure = kind,
            !.result = minimalFileRecord(FileFacts[u.fileName][u.mimeType].contentType,
                                         u.fileName)]

\* the parser handed back `parsed`: lines 294-311
fileReturn(u, parsed) ==
  CHOOSE v \in
    { [u EXCEPT !.result = fileRecord(FileFacts[u.fileName][u.mimeType].contentType,
                                      u.fileName, p)] : p \in {parsed} }
    : TRUE

\* the route after `await extractContentFromFile` (lines 144-153): an error
\* deletes the blob and goes to next(error)
afterExtraction(u) ==
  IF u.raised THEN [u EXCEPT !.pc = "responded", !.status = 500, !.uploaded = FALSE]
  ELSE [u EXCEPT !.pc = "extracted"]

\* line 108-121: the type check, then the hash and the duplicate lookup
ValidateFile ==
  /\ upload.pc = "received"
  /\ upload' = IF ~FileFacts[upload.fileName][upload.mimeType].allowed
               THEN [upload EXCEPT !.pc = "responded", !.status = 400]
               ELSE [upload EXCEPT !.pc = "dedup", !.hashed = TRUE]
  /\ UNCHANGED <<contentCache, now, calls, faultsLeft, page>>
  /\ UNCHANGED server

\* lines 123-136: the lookup settles; uploadFile is called
DuplicateChecked(existing) ==
  /\ upload.pc = "dedup"
  /\ upload' = IF existing THEN [upload EXCEPT !.pc = "responded", !.status = 409]
               ELSE [upload EXCEPT !.pc = "uploading"]
  /\ UNCHANGED <<contentCache, now, calls, faultsLeft, page>>
  /\ UNCHANGED server

\* uploadFile settles (lines 131-145); extractContentFromFile runs to its
\* first await (lines 248-292); constructed = FALSE: new EPub or parse throws
FileUploaded(ok, constructed) ==
  /\ upload.pc = "uploading"
  /\ LET facts == FileFacts[upload.fileName][upload.mimeType]
         parser == selectParser(facts.contentType, facts.extension)
         u == [upload EXCEPT !.uploaded = TRUE, !.parser = parser]
     IN upload' =
          IF ~ok THEN [upload EXCEPT !.pc = "responded", !.status = 500]
          ELSE IF parser = "raw"
          THEN afterExtraction(fileReturn(u, Parsed(decodeUtf8(u.buffer), -1, NoMetadata)))
          ELSE IF parser = "epub" /\ ~constructed
          THEN afterExtraction(fileReturn([u EXCEPT !.failure = "epub-init"],
                                          Parsed("", -1, NoMetadata)))
          ELSE [u EXCEPT !.pc = IF parser = "epub" THEN "epubParsing" ELSE "parsing"]
  /\ UNCHANGED <<contentCache, now, calls, faultsLeft, page>>
  /\ UNCHANGED server

\* processPDF settles (lines 71-82, 258-260)
PdfParsed(r) ==
  /\ upload.pc = "parsing" /\ upload.parser = "pdf"
  /\ upload' = afterExtraction(
       IF r.ok THEN fileReturn(upload, Parsed(r.text, r.numpages, NoMetadata))
       ELSE fileCatch(upload, "pdf"))
  /\ UNCHANGED <<contentCache, now, calls, faultsLeft, page>>
  /\ UNCHANGED server

\* processDOCX settles (lines 230-238, 276)
DocxParsed(r) ==
  /\ upload.pc = "parsing" /\ upload.parser = "docx"
  /\ upload' = afterExtraction(
       IF r.ok THEN fileReturn(upload, Parsed(r.value, -1, NoMetadata))
       ELSE fileCatch(upload, "docx"))
  /\ UNCHANGED <<contentCache, now, calls, faultsLeft, page>>
  /\ UNCHANGED server

\* processHTML settles (lines 87-106, 285)
HtmlParsed(r) ==
  /\ upload.pc = "parsing" /\ upload.parser = "html"
  /\ upload' = afterExtraction(
       fileReturn([upload EXCEPT !.failure = IF r.kind = "throws" THEN "html" ELSE ""],
                  Parsed(processHTML(decodeUtf8(upload.buffer), r), -1, NoMetadata)))
  /\ UNCHANGED <<contentCache, now, calls, faultsLeft, page>>
  /\ UNCHANGED server

\* processMD settles (lines 123-133, 287)
MarkdownParsed(r) ==
  /\ upload.pc = "parsing" /\ upload.parser = "markdown"
  /\ upload' = afterExtraction(
       fileReturn([upload EXCEPT !.failure = IF r.ok THEN "" ELSE "markdown"],
                  Parsed(processMD(decodeUtf8(upload.buffer), r), -1, NoMetadata)))
  /\ UNCHANGED <<contentCache, now, calls, faultsLeft, page>>
  /\ UNCHANGED server

\* processTXT settles (lines 111-118, 289)
TxtRead ==
  /\ upload.pc = "parsing" /\ upload.parser = "txt"
  /\ upload' = afterExtraction(fileReturn(upload, Parsed(processTXT(upload.buffer), -1, NoMetadata)))
  /\ UNCHANGED <<contentCache, now, calls, faultsLeft, page>>
  /\ UNCHANGED server

\* the 'error' event of the EPUB parser (lines 206-213)
EpubError ==
  /\ upload.pc = "epubParsing"
  /\ upload' = afterExtraction(fileReturn([upload EXCEPT !.failure = "epub-error"],
                                          Parsed("", -1, NoMetadata)))
  /\ UNCHANGED <<contentCache, now, calls, faultsLeft, page>>
  /\ UNCHANGED server

\* the 'end' event (lines 146-203) up to the first getChapter; broken: the
\* handler throws before the loop (line 196)
EpubEnd(metadata, spineLength, broken) ==
  /\ upload.pc = "epubParsing"
  /\ upload' =
       IF broken
       THEN afterExtraction(fileReturn([upload EXCEPT !.failure = "epub-end"],
                                       Parsed("", 0, NoMetadata)))
       ELSE IF spineLength = 0
       THEN afterExtraction(fileReturn(upload, Parsed("", 0, metadata)))
       ELSE [upload EXCEPT !.pc = "chapters",
                           !.epub = [NoEpub EXCEPT !.metadata = metadata,
                                                   !.spineLength = spineLength,
                                                   !.index = 1]]
  /\ UNCHANGED <<contentCache, now, calls, faultsLeft, page>>
  /\ UNCHANGED server

\* variant of chapterTaken that counts every chapter retrieved without an error
chapterTakenIfNoError(ch) == ~ch.err

\* the chapter is added to the text and counted (lines 172-185)
chapterTaken(ch) == ~ch.err /\ ch.markup # ""

\* getChapter calls back for the spine item at epub.index (lines 168-195)
EpubChapter(ch) ==
  /\ upload.pc = "chapters"
  /\ LET e == [upload.epub EXCEPT !.seen = Append(@, ch)]
         taken == chapterTaken(ch)
         fullText == IF taken THEN e.fullText \o ch.text \o "\n\n" ELSE e.fullText
         chapterCount == IF taken THEN e.chapterCount + 1 ELSE e.chapterCount
     IN upload' =
          IF e.index < e.spineLength
          THEN [upload EXCEPT !.epub = [e EXCEPT !.index = @ + 1, !.fullText = fullText,
                                                 !.chapterCount = chapterCount]]
          ELSE afterExtraction(
                 fileReturn([upload EXCEPT !.epub = [e EXCEPT !.fullText = fullText,
                                                              !.chapterCount = chapterCount]],
                            Parsed(trim(fullText), chapterCount, e.metadata)))
  /\ UNCHANGED <<contentCache, now, calls, faultsLeft, page>>
  /\ UNCHANGED server

\* the steps of a file upload
UploadStep ==
  \/ ValidateFile
  \/ \E existing \in BOOLEAN : DuplicateChecked(existing)
  \/ \E ok \in BOOLEAN, constructed \in BOOLEAN : FileUploaded(ok, constructed)
  \/ \E r \in PdfParseResults : PdfParsed(r)
  \/ \E r \in MammothResults : DocxParsed(r)
  \/ \E r \in HtmlResults : HtmlParsed(r)
  \/ \E r \in MarkedResults : MarkdownParsed(r)
  \/ TxtRead
  \/ EpubError
  \/ \E metadata \in EpubMetadata, spineLength \in 0..MaxSpine, broken \in BOOLEAN :
       EpubEnd(metadata, spineLength, broken)
  \/ \E ch \in Chapters : EpubChapter(ch)

(***************************************************************************)
(* The HTML path of extractContent on a fetched page (lines 85-157), step  *)
(* by step; the page is in `page`.                                         *)
(***************************************************************************)
\* the attributes of an img tag, written out with double quotes
RECURSIVE renderAttributes(_)
renderAttributes(attrs) ==
  IF attrs = <<>> THEN ""
  ELSE " " \o attrs[1].name \o "=\"" \o attrs[1].value \o "\"" \o renderAttributes(Tail(attrs))

renderImg(attrs) == "<img" \o renderAttributes(attrs) \o ">"

Attr(name, value) == [name |-> name, value |-> value]

\* img tags as pages carry them
ImgTags ==
  { <<Attr("src", "img.png")>>,
    <<Attr("alt", "a"), Attr("src", "https://other.com/x.png")>>,
    <<Attr("src", "a.png"), Attr("data-src", "b.png")>>,
    <<Attr("data-src", "b.png"), Attr("src", "a.png")>>,
    <<Attr("src", "data:image/png;base64,AA")>>,
    <<Attr("src", "/r.png"), Attr("width", "1")>>,
    <<Attr("class", "hero"), Attr("src", "../up.png")>>,
    <<Attr("src", "//cdn.example/x.png")>> }

\* article markup as Readability hands it over
HtmlInputs ==
  { "<script>alert(1)</script><p onclick=\"x()\">hi</p>",
    "<p>plain <b>text</b></p>",
    "<style>p{color:red}</style><p>styled</p>",
    "<a href=\"javascript:go()\">go</a>",
    "<a href=\"javajavascript:script:go()\">go</a>",
    "<scr<script></script>ipt>alert(1)</script>",
    "<iframe src=\"data:text/html,hi\"></iframe>",
    "<p onclick=go()>unquoted</p>",
    "<script>alert(1)",
    "" }

\* a text of 830 words
LongText == repeat("w ", 830, "")

\* a text of 119 characters once trimmed, and one of exactly 100
LoremText == "  " \o repeat("lorem ", 20, "")
HundredText == repeat("0123456789", 10, "")

\* twelve absolute images, a data URI among them
GalleryHtml ==
  LET tag(n) == renderImg(<<Attr("src", "https://c.io/" \o ToString(n))>>)
  IN tag(1) \o tag(2) \o renderImg(<<Attr("src", "data:image/png;base64,AA")>>)
       \o tag(3) \o tag(4) \o tag(5) \o tag(6) \o tag(7) \o tag(8) \o tag(9)
       \o tag(10) \o tag(11) \o tag(12)

Article(title, content, textContent) ==
  [title |-> title, content |-> content, textContent |-> textContent]

PageDoc(readability, article, containers, body, img) ==
  [parses |-> TRUE, title |-> "Head", description |-> "", coverImage |-> "",
   siteName |-> "", author |-> "", publishedDate |-> "",
   readability |-> readability, article |-> article, containers |-> containers,
   body |-> body, img |-> img]

\* the containers the fallback selectors find, in the order of the selectors
ContainerLists ==
  { <<"", "short", LoremText, "x" \o LoremText, "", "", "", "", "">>,
    <<HundredText, "", "", "", "", "", HundredText \o "1", "", "">>,
    <<"", "", "", "", "", "", "", "", "short">>,
    <<"", "", "", "", "", "", "", "", "">> }

PageDocuments ==
  { PageDoc("article", Article("Title", html, "hi there"), <<>>, "hi there", <<>>)
      : html \in HtmlInputs } \cup
  { PageDoc("article", Article("", renderImg(img), ""), <<>>, "", img) : img \in ImgTags } \cup
  { PageDoc("article", Article("Long", "<p>w</p>", LongText), <<>>, "w", <<>>),
    PageDoc("article", Article("Gallery", GalleryHtml, ""), <<>>, "", <<>>),
    PageDoc("article", Article("Mixed", "<p>see <img src=\"a.png\"></p>" \o GalleryHtml, "see"),
            <<>>, "see", <<>>) } \cup
  { PageDoc(r, Article("", "", ""), cs, body, <<>>)
      : r \in {"none", "throws"}, cs \in ContainerLists, body \in {"", " body text "} } \cup
  { [PageDoc("none", Article("", "", ""), <<>>, "", <<>>) EXCEPT !.parses = FALSE] }

PageUrls == {"https://site.example/posts/1", "https://www.example.com/doc.pdf"}

\* lines 112, 115 and 93-157 on every page of the inputs, computed once
PageJobFacts ==
  tabulated([url \in PageUrls |-> tabulated([doc \in PageDocuments |->
     [sanitized |-> sanitizeHtml(doc.article.content),
      normalized |-> normalizeImageUrls(sanitizeHtml(doc.article.content), url),
      result |-> pageMetadata(url, UrlFacts[url].contentType, doc)]])])

\* the page as fetchWithRetry hands it to line 80
FetchedPage(url, doc) ==
  [pc |-> "fetched", url |-> url, doc |-> doc,
   sanitized |-> "",     \* what sanitizeHtml gave (line 112)
   normalized |-> "",    \* what normalizeImageUrls gave (line 115)
   result |-> <<>>]      \* the record returned

\* new JSDOM and the metadata extractors (lines 86-103); a parser that
\* throws ends in the catch of line 158
PageParsed ==
  /\ page.pc = "fetched"
  /\ page' = IF page.doc.parses THEN [page EXCEPT !.pc = "parsed"]
             ELSE [page EXCEPT !.pc = "done", !.result = UrlFacts[page.url].minimal]
  /\ UNCHANGED <<contentCache, now, calls, faultsLeft, upload>>
  /\ UNCHANGED server

\* Readability (lines 106-110, 141-150)
ReadabilityDone ==
  /\ page.pc = "parsed"
  /\ page' = IF page.doc.readability = "article" THEN [page EXCEPT !.pc = "sanitize"]
             ELSE [page EXCEPT !.pc = "done",
                               !.result = PageJobFacts[page.url][page.doc].result]
  /\ UNCHANGED <<contentCache, now, calls, faultsLeft, upload>>
  /\ UNCHANGED server

\* line 112
Sanitized ==
  /\ page.pc = "sanitize"
  /\ page' = [page EXCEPT !.pc = "normalize",
                          !.sanitized = PageJobFacts[page.url][page.doc].sanitized]
  /\ UNCHANGED <<contentCache, now, calls, faultsLeft, upload>>
  /\ UNCHANGED server

\* line 115
Normalized ==
  /\ page.pc = "normalize"
  /\ page' = [page EXCEPT !.pc = "finish",
                          !.normalized = PageJobFacts[page.url][page.doc].normalized]
  /\ UNCHANGED <<contentCache, now, calls, faultsLeft, upload>>
  /\ UNCHANGED server

\* lines 117-157
PageFinished ==
  /\ page.pc = "finish"
  /\ page' = [page EXCEPT !.pc = "done", !.result = PageJobFacts[page.url][page.doc].result]
  /\ UNCHANGED <<contentCache, now, calls, faultsLeft, upload>>
  /\ UNCHANGED server

PageStep ==
  \/ PageParsed
  \/ ReadabilityDone
  \/ Sanitized
  \/ Normalized
  \/ PageFinished

(***************************************************************************)
(* One request: an uploaded file, or a fetched page.                       *)
(***************************************************************************)
InitContent ==
  /\ ServerIdle
  /\ contentCache = <<>>
  /\ now = 0
  /\ calls = [c \in Calls |-> IdleCall]
  /\ faultsLeft = 0
  /\ \/ /\ page = NoPage
        /\ \E fileName \in FileNames, mimeType \in MimeTypes, buffer \in Buffers :
             upload = ReceivedFile(fileName, mimeType, buffer)
     \/ /\ upload = NoUpload
        /\ \E url \in PageUrls, doc \in PageDocuments : page = FetchedPage(url, doc)

NextContent ==
  \/ UploadStep
  \/ PageStep

\* whatever is ready to run is run, and the libraries settle what they started
SpecContent == InitContent /\ [][NextContent]_vars /\ WF_vars(NextContent)

(***************************************************************************)
(* The metadata extractors of contentExtractor.ts (lines 189-229, 270-307  *)
(* and 391-446) on a parsed document.  A document gives, for a selector,   *)
(* the first element querySelector finds; an element has attributes and a  *)
(* text.  "" stands for an absent attribute as well as an empty one:       *)
(* getAttribute gives null or '', and the code only tests truthiness.      *)
(***************************************************************************)
Element(content, name, datetime, pubdate, textContent) ==
  [content |-> content, name |-> name, datetime |-> datetime, pubdate |-> pubdate,
   textContent |-> textContent]

\* <meta property=... content=...>, <meta name=... content=...>, and an
\* element with a text only
MetaProperty(content) == Element(content, "", "", "", "")
MetaName(name, content) == Element(content, name, "", "", "")
TextElement(textContent) == Element("", "", "", "", textContent)

TitleSelectors ==
  << "meta[property=\"og:title\"]", "meta[name=\"twitter:title\"]", "title", "h1" >>
DescriptionSelectors ==
  << "meta[property=\"og:description\"]", "meta[name=\"twitter:description\"]",
     "meta[name=\"description\"]" >>
CoverImageSelectors ==
  << "meta[property=\"og:image\"]", "meta[name=\"twitter:image\"]",
     "meta[property=\"og:image:url\"]" >>
SiteNameSelectors ==
  << "meta[property=\"og:site_name\"]", "meta[name=\"application-name\"]" >>
AuthorSelectors ==
  << "meta[name=\"author\"]", "meta[property=\"article:author\"]",
     "meta[property=\"og:article:author\"]", "[rel=\"author\"]", ".author",
     "[class*=\"author\"]", "[itemprop=\"author\"]" >>
PublishedDateSelectors ==
  << "meta[property=\"article:published_time\"]", "meta[name=\"published_time\"]",
     "meta[name=\"date\"]", "meta[property=\"og:published_time\"]", "time[datetime]",
     "[itemprop=\"datePublished\"]", "[class*=\"date\"]", "[class*=\"published\"]" >>

\* a || b || c over the attributes and the text of an element: the first
\* truthy one, else the last
RECURSIVE firstTruthy(_, _)
firstTruthy(element, attributes) ==
  IF Len(attributes) = 1 \/ element[Head(attributes)] # ""
  THEN element[Head(attributes)]
  ELSE firstTruthy(element, Tail(attributes))

\* the loop `for (const selector of selectors)` from the i-th selector on;
\* "" stands for undefined
RECURSIVE firstValue(_, _, _, _)
firstValue(document, selectors, attributes, i) ==
  IF i > Len(selectors) THEN ""
  ELSE IF selectors[i] \in DOMAIN document
          /\ trim(firstTruthy(document[selectors[i]], attributes)) # ""
  THEN trim(firstTruthy(document[selectors[i]], attributes))
  ELSE firstValue(document, selectors, attributes, i + 1)

extractTitle(document) ==
  firstValue(document, TitleSelectors, <<"content", "textContent">>, 1)
extractDescription(document) ==
  firstValue(document, DescriptionSelectors, <<"content">>, 1)
extractCoverImage(document) ==
  firstValue(document, CoverImageSelectors, <<"content">>, 1)
extractSiteName(document) ==
  firstValue(document, SiteNameSelectors, <<"content">>, 1)
extractAuthor(document) ==
  firstValue(document, AuthorSelectors, <<"content", "name", "textContent">>, 1)
extractPublishedDate(document) ==
  firstValue(document, PublishedDateSelectors,
             <<"content", "datetime", "pubdate", "textContent">>, 1)

\* what the heads and bodies of pages hold for each group of selectors
TitleParts ==
  { <<>>,
    ("meta[property=\"og:title\"]" :> MetaProperty("OG")) @@ ("title" :> TextElement("T")),
    ("meta[property=\"og:title\"]" :> MetaProperty(""))
      @@ ("meta[name=\"twitter:title\"]" :> MetaName("twitter:title", "  TW  "))
      @@ ("h1" :> TextElement("H")),
    ("meta[property=\"og:title\"]" :> MetaProperty("   ")) @@ ("title" :> TextElement(" T ")),
    ("title" :> TextElement("  ")) @@ ("h1" :> TextElement("Head")),
    ("h1" :> TextElement(" \n ")) }

OtherParts ==
  { <<>>,
    ("meta[property=\"og:description\"]" :> MetaProperty(""))
      @@ ("meta[name=\"description\"]" :> MetaName("description", " About "))
      @@ ("meta[property=\"og:site_name\"]" :> MetaProperty("Site"))
      @@ ("meta[name=\"application-name\"]" :> MetaName("application-name", "App")),
    ("meta[name=\"twitter:description\"]" :> MetaName("twitter:description", "TW"))
      @@ ("meta[name=\"description\"]" :> MetaName("description", "About"))
      @@ ("meta[property=\"og:image\"]" :> MetaProperty(" "))
      @@ ("meta[property=\"og:image:url\"]" :> MetaProperty(" https://cdn.example.com/c.png "))
      @@ ("meta[name=\"application-name\"]" :> MetaName("application-name", "App")),
    ("meta[property=\"og:image\"]" :> MetaProperty("https://cdn.example.com/a.png"))
      @@ ("meta[name=\"twitter:image\"]" :> MetaName("twitter:image", "https://cdn.example.com/b.png"))
      @@ ("meta[property=\"og:site_name\"]" :> MetaProperty("  ")) }

AuthorParts ==
  { <<>>,
    ("meta[name=\"author\"]" :> MetaName("author", "Ann"))
      @@ ("[itemprop=\"author\"]" :> TextElement("Cy")),
    ("meta[name=\"author\"]" :> MetaName("author", ""))
      @@ (".author" :> TextElement("Bob")) @@ ("[class*=\"author\"]" :> TextElement("Bob")),
    ("meta[property=\"article:author\"]" :> MetaProperty(" "))
      @@ ("[rel=\"author\"]" :> TextElement(" Bob ")),
    ("[rel=\"author\"]" :> Element("", "top", "", "", "Bob")),
    (".author" :> TextElement("")) @@ ("[class*=\"author\"]" :> TextElement(""))
      @@ ("[itemprop=\"author\"]" :> TextElement("Cy")) }

PublishedDateParts ==
  { <<>>,
    ("meta[property=\"article:published_time\"]" :> MetaProperty("2024-01-01T00:00:00Z"))
      @@ ("time[datetime]" :> Element("", "", "2024-01-02", "", "Jan 2")),
    ("meta[name=\"date\"]" :> MetaName("date", ""))
      @@ ("time[datetime]" :> Element("", "", "2024-01-02", "", "Jan 2")),
    ("time[datetime]" :> Element("", "", "", "", "Jan 3")),
    ("[class*=\"date\"]" :> Element("", "", "", "pubdate", "Jan 4")),
    ("[itemprop=\"datePublished\"]" :> Element("2024-01-05", "", "", "", "Jan 5"))
      @@ ("[class*=\"published\"]" :> TextElement("Jan 6")) }

MetaDocuments ==
  { title @@ other @@ author @@ publishedDate
      : title \in TitleParts, other \in OtherParts,
        author \in AuthorParts, publishedDate \in PublishedDateParts }

\* the document of line 90, before the literal of lines 93-103 is evaluated
ParsedDocument(document) ==
  [pc |-> "title", document |-> document, metadata |-> <<>>]

\* one property of the literal: the extractor's value, left out when undefined
extractField(field, value, next) ==
  /\ page' = [page EXCEPT !.pc = next, !.metadata = @ @@ Opt(field, value)]
  /\ UNCHANGED <<contentCache, now, calls, faultsLeft, upload>>
  /\ UNCHANGED server

\* line 95
ExtractTitle ==
  /\ page.pc = "title"
  /\ extractField("title", extractTitle(page.document), "description")

\* line 96
ExtractDescription ==
  /\ page.pc = "description"
  /\ extractField("description", extractDescription(page.document), "coverImage")

\* line 98
ExtractCoverImage ==
  /\ page.pc = "coverImage"
  /\ extractField("coverImage", extractCoverImage(page.document), "siteName")

\* line 99
ExtractSiteName ==
  /\ page.pc = "siteName"
  /\ extractField("siteName", extractSiteName(page.document), "author")

\* line 101
ExtractAuthor ==
  /\ page.pc = "author"
  /\ extractField("author", extractAuthor(page.document), "publishedDate")

\* line 102
ExtractPublishedDate ==
  /\ page.pc = "publishedDate"
  /\ extractField("publishedDate", extractPublishedDate(page.document), "extracted")

InitMeta ==
  /\ ServerIdle
  /\ contentCache = <<>>
  /\ now = 0
  /\ calls = [c \in Calls |-> IdleCall]
  /\ faultsLeft = 0
  /\ upload = NoUpload
  /\ \E document \in MetaDocuments : page = ParsedDocument(document)

NextMeta ==
  \/ ExtractTitle
  \/ ExtractDescription
  \/ ExtractCoverImage
  \/ ExtractSiteName
  \/ ExtractAuthor
  \/ ExtractPublishedDate

SpecMeta == InitMeta /\ [][NextMeta]_vars

(***************************************************************************)
(* The routes: POST /articles (articles/routes.ts 47-263) and              *)
(* DELETE /tokens/:id (tokens/routes.ts 97-122).  Each request is in a     *)
(* slot of `requests`; its steps are the synchronous runs between two      *)
(* awaits, so the steps of two requests interleave.  The tables of the     *)
(* database are `accessTokens` and `articles`, the bucket is `storage`.    *)
(***************************************************************************)
\* what a POST /articles request carries: a file or a JSON body (valid:
\* createArticleSchema accepts it), the token it presents ("": none), the
\* URL of the body ("": none), whether the type of the file is allowed,
\* whether the attributes field of the form is JSON, and whether the body
\* brings its own title and description
PostInputs ==
  { [file |-> TRUE, token |-> token, valid |-> TRUE, url |-> "",
     allowed |-> allowed, attributesOk |-> attributesOk, provided |-> FALSE]
    : token \in {"t1", ""}, allowed \in BOOLEAN, attributesOk \in BOOLEAN }
  \cup
  { [file |-> FALSE, token |-> token, valid |-> valid, url |-> url,
     allowed |-> TRUE, attributesOk |-> TRUE, provided |-> provided]
    : token \in {"t1", "t2", ""}, valid \in BOOLEAN, url \in {"https://a.example/1", ""},
      provided \in BOOLEAN }

\* the token is in the table with revokedAt set
isRevoked(token) ==
  token \in DOMAIN accessTokens /\ accessTokens[token].revokedAt # Null

\* the request as the handler sees it at line 47
PostRequest(in) ==
  [pc |-> "verifying", method |-> "POST",
   file |-> in.file, token |-> in.token, valid |-> in.valid, url |-> in.url,
   allowed |-> in.allowed, attributesOk |-> in.attributesOk, provided |-> in.provided,
   revoked |-> isRevoked(in.token),   \* the token was revoked when it arrived
   userId |-> "",         \* accessToken.userId (line 90)
   status |-> 0,          \* the HTTP status answered (0: none yet)
   existing |-> 0,        \* the row the duplicate lookup found (0: none)
   fileUrl |-> 0,         \* the blob uploadFile stored (0: none)
   created |-> 0]         \* the row prisma.article.create inserted (0: none)

\* res.status(status).json(...), or next(error) for status 500
respond(q, status) == [q EXCEPT !.pc = "responded", !.status = status]

\* generateUrlHash and generateFileHash: one URL and one file content are
\* sent, so a hash stands for what it was made of; "" is NULL
urlHashOf(q) == IF q.file THEN "" ELSE q.url
fileHashOf(q) == IF q.file THEN "sha256" ELSE ""

\* the row prisma.article.create inserts (lines 232-254): currentPage and
\* readingProgress take the defaults of their columns; readingProgress is
\* the fraction num / den
NewArticle(userId, urlHash, fileHash, fileUrl, totalPages) ==
  [userId |-> userId, urlHash |-> urlHash, fileHash |-> fileHash, fileUrl |-> fileUrl,
   totalPages |-> totalPages, currentPage |-> Null,
   readingProgress |-> [num |-> 0, den |-> 1]]

\* prisma.article.findFirst({where: {fileHash | urlHash, userId}})
\* (lines 116-121 and 170-175): the rows that match
findExisting(q) ==
  {i \in 1..Len(articles) :
     /\ articles[i].userId = q.userId
     /\ IF q.file THEN articles[i].fileHash = fileHashOf(q)
        ELSE articles[i].urlHash = urlHashOf(q)}

\* the unique index Article_urlHash_key: a row has the urlHash already
urlHashTaken(q) ==
  ~q.file /\ \E i \in 1..Len(articles) : articles[i].urlHash = urlHashOf(q)

\* variant of findAccessToken that does not look at revokedAt
findAccessTokenRevokedOrNot(token) == token \in DOMAIN accessTokens

\* prisma.accessToken.findFirst({where: {token, revokedAt: null}})
\* (lines 79-84): there is such a row
findAccessToken(token) ==
  token \in DOMAIN accessTokens /\ accessTokens[token].revokedAt = Null

\* the handler up to its first await (lines 47-79): the JSON body is
\* validated, then the token is looked for in the header and the body
PostArticles(r, in) ==
  /\ requests[r].pc = "idle"
  /\ \A d \in Requests : d < r => requests[d].pc # "idle"
  /\ requests' = [requests EXCEPT ![r] =
       IF ~in.file /\ ~in.valid THEN respond(PostRequest(in), 400)
       ELSE IF in.token = "" THEN respond(PostRequest(in), 401)
       ELSE PostRequest(in)]
  /\ UNCHANGED <<accessTokens, articles, storage>>
  /\ UNCHANGED services

\* prisma.accessToken.findFirst settles (lines 79-121 and 159-175)
AccessTokenLooked(r) ==
  /\ requests[r].pc = "verifying"
  /\ LET q == requests[r]
     IN requests' = [requests EXCEPT ![r] =
          IF ~findAccessToken(q.token) THEN respond(q, 401)
          ELSE IF ~q.file /\ q.url = "" THEN respond(q, 400)
          ELSE IF q.file /\ ~q.allowed THEN respond(q, 400)
          ELSE [q EXCEPT !.pc = "dedup", !.userId = accessTokens[q.token].userId]]
  /\ UNCHANGED <<accessTokens, articles, storage>>
  /\ UNCHANGED services

\* prisma.article.findFirst settles (lines 116-136 and 170-199)
ExistingLooked(r) ==
  /\ requests[r].pc = "dedup"
  /\ LET q == requests[r]
         rows == findExisting(q)
     IN requests' = [requests EXCEPT ![r] =
          IF rows # {}
          THEN [respond(q, 409) EXCEPT
                  !.existing = CHOOSE i \in rows : \A j \in rows : i <= j]
          ELSE IF q.file THEN [q EXCEPT !.pc = "uploading"]
          ELSE IF q.provided THEN [q EXCEPT !.pc = "creating"]
          ELSE [q EXCEPT !.pc = "extracting"]]
  /\ UNCHANGED <<accessTokens, articles, storage>>
  /\ UNCHANGED services

\* uploadFile settles (storage.ts 28-69, routes.ts 131-145): the blob is
\* stored under a name of its own, or the upload fails and the handler
\* goes to next(error)
UploadSettled(r, ok) ==
  /\ requests[r].pc = "uploading"
  /\ requests' = [requests EXCEPT ![r] =
       IF ok THEN [@ EXCEPT !.pc = "extracting", !.fileUrl = r] ELSE respond(@, 500)]
  /\ storage' = IF ok THEN storage \cup {r} ELSE storage
  /\ UNCHANGED <<accessTokens, articles>>
  /\ UNCHANGED services

\* extractContentFromFile or extractContent settles (lines 145-232 and
\* 199-232).  Neither throws: each catches what its parsers and fetches
\* raise, so the catch of lines 146-151 is never entered.  JSON.parse of
\* the attributes field of a form (line 218) throws to the catch of 257.
ExtractionSettled(r) ==
  /\ requests[r].pc = "extracting"
  /\ requests' = [requests EXCEPT ![r] =
       IF @.file /\ ~@.attributesOk THEN respond(@, 500) ELSE [@ EXCEPT !.pc = "creating"]]
  /\ UNCHANGED <<accessTokens, articles, storage>>
  /\ UNCHANGED services

\* prisma.article.create settles (lines 232-262); ok = FALSE: the database
\* fails.  A urlHash that a row has already is refused by the unique index.
ArticleCreated(r, ok) ==
  /\ requests[r].pc = "creating"
  /\ LET q == requests[r]
     IN IF ~ok \/ urlHashTaken(q)
        THEN /\ requests' = [requests EXCEPT ![r] = respond(q, 500)]
             /\ UNCHANGED articles
        ELSE /\ articles' = Append(articles,
                  NewArticle(q.userId, urlHashOf(q), fileHashOf(q), q.fileUrl, Null))
             /\ requests' = [requests EXCEPT ![r] =
                  [respond(q, 201) EXCEPT !.created = Len(articles) + 1]]
  /\ UNCHANGED <<accessTokens, storage>>
  /\ UNCHANGED services

\* DELETE /tokens/:id up to its first await (lines 97-107); authToken has
\* let the request through as the user userId
DeleteToken(r, tokenId, userId) ==
  /\ requests[r].pc = "idle"
  /\ \A d \in Requests : d < r => requests[d].pc # "idle"
  /\ requests' = [requests EXCEPT ![r] =
       [pc |-> "finding", method |-> "DELETE", tokenId |-> tokenId,
        userId |-> userId, status |-> 0]]
  /\ UNCHANGED <<accessTokens, articles, storage>>
  /\ UNCHANGED services

\* prisma.accessToken.findFirst settles (lines 102-116)
TokenLooked(r) ==
  /\ requests[r].pc = "finding"
  /\ LET q == requests[r]
     IN requests' = [requests EXCEPT ![r] =
          IF q.tokenId \in DOMAIN accessTokens /\ accessTokens[q.tokenId].userId = q.userId
          THEN [q EXCEPT !.pc = "revoking"]
          ELSE respond(q, 404)]
  /\ UNCHANGED <<accessTokens, articles, storage>>
  /\ UNCHANGED services

\* prisma.accessToken.update settles (lines 113-118)
TokenRevoked(r) ==
  /\ requests[r].pc = "revoking"
  /\ accessTokens' = [accessTokens EXCEPT ![requests[r].tokenId].revokedAt = now]
  /\ requests' = [requests EXCEPT ![r] = respond(@, 200)]
  /\ UNCHANGED <<articles, storage>>
  /\ UNCHANGED services

InitRoutes ==
  /\ ServerIdle
  /\ contentCache = <<>>
  /\ now = 0
  /\ calls = [c \in Calls |-> IdleCall]
  /\ faultsLeft = 0
  /\ upload = NoUpload
  /\ page = NoPage

\* two requests, one after the other or overlapping
NextRoutes ==
  \/ \E r \in Requests, in \in PostInputs : PostArticles(r, in)
  \/ \E r \in Requests : AccessTokenLooked(r)
  \/ \E r \in Requests : ExistingLooked(r)
  \/ \E r \in Requests, ok \in BOOLEAN : UploadSettled(r, ok)
  \/ \E r \in Requests : ExtractionSettled(r)
  \/ \E r \in Requests, ok \in BOOLEAN : ArticleCreated(r, ok)
  \/ \E r \in Requests, tokenId \in DOMAIN IssuedTokens, userId \in {"u1", "u2"} :
       DeleteToken(r, tokenId, userId)
  \/ \E r \in Requests : TokenLooked(r)
  \/ \E r \in Requests : TokenRevoked(r)

SpecRoutes == InitRoutes /\ [][NextRoutes]_vars

(***************************************************************************)
(* Reading progress: PATCH /articles/:id (routes.ts 462-552) and           *)
(* POST /articles/:id/read (routes.ts 587-645) on the one article of user  *)
(* u1.  Of the columns they write, the model keeps totalPages, currentPage *)
(* and readingProgress.  A fraction is num / den; a progress of the body   *)
(* is given in halves (1: 0.5, 2: 1.0).                                    *)
(***************************************************************************)
\* a key the body does not have
Undefined == -2

\* `x && ...` on a number, null or undefined
truthy(x) == x # Undefined /\ x # Null /\ x # 0

\* Math.min(currentPage / totalPages, 1)
pageProgress(currentPage, totalPages) ==
  IF currentPage > totalPages THEN [num |-> 1, den |-> 1]
  ELSE [num |-> currentPage, den |-> totalPages]

\* Math.round(progress * totalPages) for a progress of halves/2
progressPage(halves, totalPages) == (halves * totalPages + 1) \div 2

\* the bodies updateArticleSchema accepts, as far as the pages go
PatchBodies ==
  [totalPages : {Undefined, Null, 2}, currentPage : {Undefined, Null, 1, 3},
   readingProgress : {Undefined, 1, 2}]

\* the bodies of POST /articles/:id/read
ReadBodies == [currentPage : {Undefined, 1, 3}, progress : {Undefined, 1, 2}]

\* lines 512 and 610: `finalTotalPages && currentPage > finalTotalPages`
exceedsTotal(currentPage, finalTotalPages) ==
  truthy(finalTotalPages) /\ currentPage > finalTotalPages

\* lines 494-528 of PATCH: the data of the update, or refused
patchData(article, body) ==
  LET given == IF body.totalPages # Undefined THEN body.totalPages ELSE article.totalPages
      total == IF body.totalPages # Undefined
               THEN [totalPages |-> body.totalPages] ELSE <<>>
      current == IF body.currentPage # Undefined
                 THEN [currentPage |-> body.currentPage] ELSE <<>>
      synced == IF body.currentPage \notin {Undefined, Null} /\ truthy(given) /\ given > 0
                THEN [readingProgress |-> pageProgress(body.currentPage, given)] ELSE <<>>
      progress == IF body.readingProgress # Undefined
                  THEN [readingProgress |-> [num |-> body.readingProgress, den |-> 2]]
                  ELSE <<>>
      rounded == IF body.readingProgress # Undefined
                 /\ truthy(article.totalPages) /\ article.totalPages > 0
              THEN [currentPage |-> progressPage(body.readingProgress, article.totalPages)]
              ELSE <<>>
  IN IF body.currentPage \notin {Undefined, Null} /\ exceedsTotal(body.currentPage, given)
     THEN [refused |-> TRUE, data |-> <<>>]
     ELSE [refused |-> FALSE, data |-> rounded @@ progress @@ synced @@ current @@ total]

\* lines 604-634 of POST /:id/read: the data of the update, or refused
readData(article, body) ==
  IF body.currentPage # Undefined
  THEN IF exceedsTotal(body.currentPage, article.totalPages)
       THEN [refused |-> TRUE, data |-> <<>>]
       ELSE [refused |-> FALSE,
             data |-> [currentPage |-> body.currentPage]
                      @@ (IF truthy(article.totalPages) /\ article.totalPages > 0
                          THEN [readingProgress |->
                                  pageProgress(body.currentPage, article.totalPages)]
                          ELSE <<>>)]
  ELSE IF body.progress # Undefined
  THEN [refused |-> FALSE,
        data |-> [readingProgress |-> [num |-> body.progress, den |-> 2]]
                 @@ (IF truthy(article.totalPages) /\ article.totalPages > 0
                     THEN [currentPage |-> progressPage(body.progress, article.totalPages)]
                     ELSE <<>>)]
  ELSE [refused |-> TRUE, data |-> <<>>]

\* either handler up to its first await (lines 462-473 and 587-598);
\* authToken has let the request through as the user userId
ProgressRequest(r, method, userId, body) ==
  /\ requests[r].pc = "idle"
  /\ \A d \in Requests : d < r => requests[d].pc # "idle"
  /\ requests' = [requests EXCEPT ![r] =
       [pc |-> "findingArticle", method |-> method, userId |-> userId, body |-> body,
        status |-> 0, data |-> <<>>]]
  /\ UNCHANGED <<accessTokens, articles, storage>>
  /\ UNCHANGED services

\* prisma.article.findFirst settles (lines 468-540 and 593-636)
ArticleLooked(r) ==
  /\ requests[r].pc = "findingArticle"
  /\ LET q == requests[r]
         update == IF q.method = "PATCH" THEN patchData(articles[1], q.body)
                   ELSE readData(articles[1], q.body)
     IN requests' = [requests EXCEPT ![r] =
          IF articles[1].userId # q.userId THEN respond(q, 404)
          ELSE IF update.refused THEN respond(q, 400)
          ELSE [q EXCEPT !.pc = "updatingArticle", !.data = update.data]]
  /\ UNCHANGED <<accessTokens, articles, storage>>
  /\ UNCHANGED services

\* prisma.article.update settles (lines 540-545 and 636-641)
ArticleUpdated(r) ==
  /\ requests[r].pc = "updatingArticle"
  /\ articles' = [articles EXCEPT ![1] = requests[r].data @@ @]
  /\ requests' = [requests EXCEPT ![r] = respond(@, 200)]
  /\ UNCHANGED <<accessTokens, storage>>
  /\ UNCHANGED services

\* an article as POST /articles left it, with or without a page count
InitProgress ==
  /\ accessTokens = IssuedTokens
  /\ \E totalPages \in {Null, 2, 4} :
       articles = <<NewArticle("u1", "https://a.example/1", "", 0, totalPages)>>
  /\ storage = {}
  /\ requests = [r \in Requests |-> NoRequest]
  /\ contentCache = <<>>
  /\ now = 0
  /\ calls = [c \in Calls |-> IdleCall]
  /\ faultsLeft = 0
  /\ upload = NoUpload
  /\ page = NoPage

NextProgress ==
  \/ \E r \in Requests, userId \in {"u1", "u2"}, body \in PatchBodies :
       ProgressRequest(r, "PATCH", userId, body)
  \/ \E r \in Requests, userId \in {"u1", "u2"}, body \in ReadBodies :
       ProgressRequest(r, "READ", userId, body)
  \/ \E r \in Requests : ArticleLooked(r)
  \/ \E r \in Requests : ArticleUpdated(r)

SpecProgress == InitProgress /\ [][NextProgress]_vars

(***************************************************************************)
(* Properties.                                                             *)
(***************************************************************************)
Valid(c) == UrlFacts[calls[c].url].valid
Ended(c) == calls[c].pc = "done"
\* the call went to the network
Net(c) == calls[c].requests + calls[c].oembed > 0
\* the page fetch of the call failed: its last attempt failed, or the page
\* it fetched did not parse
FetchFailedFor(c) ==
  calls[c].lastKind # "" \/ (calls[c].fetched /\ calls[c].thrown # NoError)
\* the hostname of the URL with "www." removed
HostTitle == [url \in AllUrls |-> replaceFirst(urlHostname(url), "www.", "")]
Finishes(c) == calls[c].pc # "done" /\ calls'[c].pc = "done"
Begins(c) == calls[c].pc = "idle" /\ calls'[c].pc # "idle"

\* C1: for a string that is not a valid URL, extractContent raises to its
\* caller instead of returning a record, with no network call and no use
\* of the cache.
C1_InvalidUrlRaises ==
  \A c \in Calls :
    Ended(c) /\ ~Valid(c) =>
      /\ calls[c].raised
      /\ calls[c].result = <<>>
      /\ ~Net(c)
      /\ ~calls[c].hit

\* C2: for a valid URL extractContent never raises, whatever the network
\* does, and when the page fetch fails the record is exactly
\* {contentType: detectContentType(url), title: hostname without "www."}.
C2_FailedFetchGivesMinimalRecord ==
  \A c \in Calls :
    Ended(c) /\ Valid(c) =>
      /\ ~calls[c].raised
      /\ "contentType" \in DOMAIN calls[c].result
      /\ FetchFailedFor(c) =>
           calls[c].result = [contentType |-> UrlFacts[calls[c].url].contentType,
                              title |-> HostTitle[calls[c].url]]

C2_Witness ==
  \E c \in Calls :
    /\ Ended(c)
    /\ calls[c].url = "https://www.example.com/post"
    /\ calls[c].failures = MAX_RETRIES + 1
    /\ calls[c].result = [contentType |-> "ARTICLE", title |-> "example.com"]

\* C3: a timeout or an oversized response on any attempt ends fetchWithRetry
\* at once: no attempt and no backoff wait follows it (so every request sent
\* has failed and one wait fewer than requests was slept), and extractContent
\* resolves to the minimal record.
C3_TimeoutAndOversizeAreTerminal ==
  \A c \in Calls :
    calls[c].lastKind \in {"timeout", "oversize"} =>
      /\ Ended(c)
      /\ calls[c].timer = 0
      /\ calls[c].requests = calls[c].failures
      /\ Len(calls[c].waits) = calls[c].failures - 1
      /\ ~calls[c].raised
      /\ calls[c].result = [contentType |-> UrlFacts[calls[c].url].contentType,
                            title |-> HostTitle[calls[c].url]]

C3_Witness ==
  \E c \in Calls :
    /\ Ended(c)
    /\ calls[c].lastKind = "timeout"
    /\ calls[c].requests = 1
    /\ calls[c].waits = <<>>
    /\ calls[c].result = [contentType |-> "ARTICLE", title |-> "example.com"]

Sequential(i, j) ==
  /\ calls[j].pc # "idle"
  /\ i \in calls[j].after
  /\ calls[i].url = calls[j].url
  /\ calls[i].useCache /\ calls[j].useCache
  /\ calls[j].startedAt - calls[i].startedAt < CACHE_TTL

\* the call ended by storing its record: it was not answered from the cache
\* and did not end in the catch of extractContent
StoredRecord(c) ==
  /\ Ended(c) /\ Valid(c) /\ calls[c].useCache /\ ~calls[c].hit
  /\ ~(calls[c].ctx = "page" /\ calls[c].thrown # NoError)

C6_FreshEntryReturnedVerbatim ==
  [][\A c \in Calls :
       Begins(c) /\ calls'[c].useCache /\ UrlFacts[calls'[c].url].valid =>
         LET url == calls'[c].url
             age == IF url \in DOMAIN contentCache
                    THEN now - contentCache[url].timestamp ELSE -1
         IN /\ age >= 0 /\ age < CACHE_TTL =>
                 /\ calls'[c].pc = "done"
                 /\ calls'[c].hit
                 /\ calls'[c].result = contentCache[url].data
                 /\ ~calls'[c].classified
                 /\ calls'[c].requests = 0 /\ calls'[c].oembed = 0
                 /\ contentCache' = contentCache
            /\ age >= CACHE_TTL => ~calls'[c].hit /\ calls'[c].pc # "done"]_vars

C6_Witness ==
  \E c \in Calls :
    /\ Ended(c) /\ calls[c].hit
    /\ calls[c].age = HalfTTL
    /\ calls[c].result = calls[c].seen
    /\ "favicon" \in DOMAIN calls[c].result

\* C7 (as claimed): a call with useCache = false whose extraction succeeds
\* overwrites the cache entry of its URL with the new record and the
\* current time.
C7_NoCacheCallOverwrites ==
  [][\A c \in Calls :
       Finishes(c) /\ ~calls'[c].useCache /\ calls'[c].fetched /\ calls'[c].thrown = NoError =>
         /\ calls'[c].url \in DOMAIN contentCache'
         /\ contentCache'[calls'[c].url] = [data |-> calls'[c].result, timestamp |-> now]]_vars

\* C7 (amended): a call with useCache = false never returns a cached record
\* (it always runs the pipeline) and no step of it writes the cache, whether
\* the extraction succeeds or fails.
C7_NoCacheCallBypassesCache ==
  [][\A c \in Calls :
       calls'[c] # calls[c] /\ ~calls'[c].useCache =>
         /\ contentCache' = contentCache
         /\ ~calls'[c].hit
         /\ Begins(c) /\ UrlFacts[calls'[c].url].valid =>
              calls'[c].classified /\ calls'[c].pc # "done"]_vars

C7_Witness ==
  \E c \in Calls :
    /\ Ended(c) /\ ~calls[c].useCache
    /\ calls[c].fetched /\ calls[c].thrown = NoError
    /\ calls[c].age >= 0 /\ calls[c].age < CACHE_TTL
    /\ calls[c].url \in DOMAIN contentCache
    /\ contentCache[calls[c].url].data # calls[c].result

\* C8: calls for the same URL are not deduplicated: a call that misses the
\* cache sends its own request at once, whatever other calls are in flight,
\* and a call that returns its record replaces the entry of its URL whole
\* with that record and the current time, so the last write wins.
C8_LastWriteWins ==
  [][\A c \in Calls :
       /\ Begins(c) /\ UrlFacts[calls'[c].url].valid
            /\ ~(calls'[c].useCache /\ calls'[c].age >= 0 /\ calls'[c].age < CACHE_TTL)
            /\ calls'[c].ctx # "youtube" =>
              calls'[c].pc = "fetching" /\ calls'[c].requests = 1
       /\ Finishes(c) /\ calls'[c].useCache /\ ~calls'[c].hit
            /\ UrlFacts[calls'[c].url].valid
            /\ ~(calls'[c].ctx = "page" /\ calls'[c].thrown # NoError) =>
              contentCache' =
                [u \in DOMAIN contentCache \cup {calls'[c].url} |->
                   IF u = calls'[c].url
                   THEN [data |-> calls'[c].result, timestamp |-> now]
                   ELSE contentCache[u]]]_vars

C8_Witness ==
  \E i, j \in Calls :
    /\ i # j /\ calls[i].url = calls[j].url
    /\ calls[i].useCache /\ calls[j].useCache
    /\ Ended(i) /\ Ended(j)
    /\ i \notin calls[j].after /\ j \notin calls[i].after
    /\ calls[i].age = -1 /\ calls[j].age = -1
    /\ calls[i].requests >= 1 /\ calls[j].requests >= 1
    /\ calls[i].fetched /\ calls[j].fetched
    /\ calls[i].result # calls[j].result
    /\ contentCache[calls[i].url].data = calls[i].result

\* the strings that end with ".pdf", whatever the letter case
PdfUrls == {url \in AllUrls : endsWith(toLowerCase(url), ".pdf")}

\* those of them that name neither YouTube nor Twitter/X
PlainPdfUrls ==
  {url \in PdfUrls :
     \A pat \in {"youtube.com", "youtu.be", "twitter.com", "x.com"} :
       ~includes(toLowerCase(url), pat)}

\* C9 (as claimed): for every URL string that ends with ".pdf" the record
\* returned has contentType PDF, whatever else the URL contains.
C9_PdfSuffixGivesPdf ==
  \A c \in Calls :
    Ended(c) /\ calls[c].url \in PdfUrls => calls[c].result.contentType = "PDF"

\* C9 (amended): for every URL string that ends with ".pdf" and contains
\* none of "youtube.com", "youtu.be", "twitter.com", "x.com" (letter case
\* ignored), the record returned has contentType PDF, whether the fetch
\* succeeds or fails.
C9_PlainPdfSuffixGivesPdf ==
  \A c \in Calls :
    Ended(c) /\ calls[c].url \in PlainPdfUrls => calls[c].result.contentType = "PDF"

C9_Witness ==
  \E c \in Calls :
    /\ Ended(c)
    /\ calls[c].url = "https://substack.com/doc.pdf"
    /\ calls[c].lastKind = "timeout"
    /\ calls[c].result.contentType = "PDF"

\* the classifier's rules in their order of priority: the substrings that
\* select a type, or the suffix that does
PriorityRules ==
  << [has |-> {"youtube.com", "youtu.be"}, ends |-> {}, type |-> "YOUTUBE"],
     [has |-> {"twitter.com", "x.com"}, ends |-> {}, type |-> "TWITTER"],
     [has |-> {}, ends |-> {".pdf"}, type |-> "PDF"],
     [has |-> {"newsletter", "substack"}, ends |-> {}, type |-> "NEWSLETTER"] >>

RuleMatches(rule, url) ==
  \/ \E pat \in rule.has : includes(toLowerCase(url), pat)
  \/ \E pat \in rule.ends : endsWith(toLowerCase(url), pat)

\* the type of the first rule that matches, ARTICLE when none does
PriorityType ==
  [url \in AllUrls |->
     LET hits == {n \in 1..Len(PriorityRules) : RuleMatches(PriorityRules[n], url)}
     IN IF hits = {} THEN "ARTICLE"
        ELSE PriorityRules[CHOOSE n \in hits : \A m \in hits : n <= m].type]

\* C10: detectContentType gives the type of the first matching rule, in the
\* order YOUTUBE, TWITTER, PDF, NEWSLETTER, else ARTICLE, ignoring letter
\* case, and never BLOG, BOOK or EBOOK.
C10_ClassifierPriorityOrder ==
  \A c \in Calls :
    Ended(c) =>
      /\ calls[c].result.contentType = PriorityType[calls[c].url]
      /\ calls[c].result.contentType \notin {"BLOG", "BOOK", "EBOOK"}

C10_Witness ==
  \E c \in Calls :
    /\ Ended(c)
    /\ calls[c].url = "https://YouTube.com/watch?v=&t=1"
    /\ calls[c].result.contentType = "YOUTUBE"


(***************************************************************************)
(* Properties of the records of uploaded files and fetched pages.          *)
(***************************************************************************)
\* the record extractContentFromFile returned to the route, if it has
FileRecords == IF upload.pc = "extracted" THEN {upload.result} ELSE {}
\* the record the HTML path of extractContent returned, if it has
PageRecords == IF page.pc = "done" THEN {page.result} ELSE {}
\* the exact value of ceil(wordCount * 60 / 200)
exactReadingTime(wordCount) == (wordCount * 60 + 199) \div 200
countsAgree(r) ==
  /\ ("wordCount" \in DOMAIN r) <=> ("readingTime" \in DOMAIN r)
  /\ "wordCount" \in DOMAIN r => r.readingTime = exactReadingTime(r.wordCount)

\* C11: in every record returned by extractContent or
\* extractContentFromFile, wordCount and readingTime are both present or
\* both absent, and when present readingTime = ceil(wordCount * 60 / 200),
\* wordCount being the number of non-empty tokens of the text split on
\* white space.
C11_ReadingTimeIsCeiling ==
  /\ \A r \in FileRecords :
       /\ countsAgree(r)
       /\ "wordCount" \in DOMAIN r => r.wordCount = countWords(r.content)
  /\ \A r \in PageRecords : countsAgree(r)

pagesOnlyForPagedTypes(r) ==
  /\ "contentType" \in DOMAIN r
  /\ "totalPages" \in DOMAIN r => r.contentType \in {"PDF", "BOOK", "EBOOK"}

\* C12: in every record returned by extractContent or
\* extractContentFromFile, contentType is set, and totalPages is set only
\* when contentType is PDF, BOOK or EBOOK.
C12_TotalPagesOnlyForPagedTypes ==
  /\ \A r \in FileRecords : pagesOnlyForPagedTypes(r)
  /\ \A r \in PageRecords : pagesOnlyForPagedTypes(r)

\* a PDF of two pages has been parsed
C12_Witness ==
  /\ upload.pc = "extracted"
  /\ upload.parser = "pdf"
  /\ upload.result.contentType = "PDF"
  /\ "totalPages" \in DOMAIN upload.result
  /\ upload.result.totalPages = 2

\* extractContentFromFile has been called and has not settled
Extracting == upload.pc \in {"parsing", "epubParsing", "chapters"}

\* C13: extractContentFromFile never raises to its caller and always
\* resolves: for every buffer, file name and MIME type, and whether the
\* parser it dispatches to succeeds or fails, it eventually returns a record
\* whose contentType is detectFileType(fileName, mimeType).
C13_FileExtractionAlwaysResolves ==
  /\ [](upload.pc # "idle" => ~upload.raised)
  /\ [](upload.pc = "extracted" =>
          upload.result.contentType = detectFileType(upload.fileName, upload.mimeType))
  /\ Extracting ~> upload.pc = "extracted"

\* the PDF parser failed and a record came back all the same
C13_Witness ==
  /\ upload.pc = "extracted"
  /\ upload.failure = "pdf"
  /\ upload.fileName = "Report.PDF"
  /\ upload.result.contentType = "PDF"

\* the minimal record of an upload: contentType, the file name without its
\* extension, and an empty content
MinimalOf(u) ==
  [contentType |-> FileFacts[u.fileName][u.mimeType].contentType,
   title |-> FileFacts[u.fileName][u.mimeType].title,
   content |-> ""]
ParserFailed == upload.pc = "extracted" /\ upload.failure # ""

\* C14: whenever the format parser selected by extractContentFromFile fails
\* internally, the returned record is exactly {contentType, title: file
\* name without its extension, content: ''}, with wordCount, readingTime
\* and totalPages absent.
C14_ParserFailureGivesMinimalRecord ==
  ParserFailed => upload.result = MinimalOf(upload)

\* C14, amended: a failure of the PDF or DOCX parser gives exactly the
\* minimal record; a failure of the EPUB parser gives the minimal record
\* with wordCount 0 and readingTime 0 (and totalPages 0 when the 'end'
\* handler failed); a failure of the HTML or Markdown parser gives the
\* decoded buffer unchanged as content, with its counts, and no totalPages.
C14_ParserFailureDegradesPerFormat ==
  ParserFailed =>
    LET r == upload.result
        counts == [wordCount |-> 0, readingTime |-> 0]
    IN /\ upload.failure \in {"pdf", "docx"} => r = MinimalOf(upload)
       /\ upload.failure \in {"epub-init", "epub-error"} => r = MinimalOf(upload) @@ counts
       /\ upload.failure = "epub-end" =>
            r = MinimalOf(upload) @@ counts @@ [totalPages |-> 0]
       /\ upload.failure \in {"html", "markdown"} =>
            /\ DOMAIN r = {"contentType", "title", "content", "wordCount", "readingTime"}
            /\ r.contentType = MinimalOf(upload).contentType
            /\ r.title = MinimalOf(upload).title
            /\ r.content = decodeUtf8(upload.buffer)
            /\ r.wordCount = countWords(r.content)

\* the HTML parser threw on "<p>Hi</p>" and the markup came back as content
C14_Witness ==
  /\ ParserFailed
  /\ upload.failure = "html"
  /\ upload.result.content = "<p>Hi</p>"
  /\ upload.result.wordCount = 1

\* C15: for a plain-text file (classified ARTICLE, extension neither
\* .html/.htm nor .md/.markdown) extractContentFromFile returns the decoded
\* buffer unchanged as content; a zero-byte buffer named "empty.txt" gives
\* contentType ARTICLE, content '', wordCount 0 and readingTime 0, without
\* raising.
C15_PlainTextPassesThrough ==
  upload.pc \in {"extracted", "responded"} /\ upload.parser = "txt" =>
    /\ upload.pc = "extracted" /\ ~upload.raised
    /\ upload.result.contentType = "ARTICLE"
    /\ upload.result.content = decodeUtf8(upload.buffer)
    /\ upload.fileName = "empty.txt" /\ upload.buffer = <<>> =>
         upload.result = [contentType |-> "ARTICLE", title |-> "empty", content |-> "",
                          wordCount |-> 0, readingTime |-> 0]

\* the empty file empty.txt, sent without a MIME type, has been read
C15_Witness ==
  /\ upload.pc = "extracted"
  /\ upload.parser = "txt"
  /\ upload.fileName = "empty.txt" /\ upload.mimeType = "" /\ upload.buffer = <<>>
  /\ upload.result.content = ""
  /\ upload.result.wordCount = 0

\* the lower-cased extension of the file names of the inputs, written out
ExpectedExtension ==
  [fileName \in FileNames |->
     CASE fileName = "empty.txt" -> ".txt"
       [] fileName = "doc.docx" -> ".docx"
       [] fileName = "doc.exe" -> ".exe"
       [] fileName = "Report.PDF" -> ".pdf"
       [] fileName = "book.epub" -> ".epub"
       [] fileName = "page.html" -> ".html"
       [] fileName = "notes.md" -> ".md"
       [] fileName = "README" -> "readme"
       [] fileName = "archive.tar.gz" -> ".gz"
       [] fileName = "old.doc" -> ".doc"]

\* the MIME type is absent or outside the list, and so is the extension
Rejected(fileName, mimeType) ==
  /\ mimeType = "" \/ mimeType \notin ALLOWED_MIME_TYPES
  /\ ExpectedExtension[fileName] \notin ALLOWED_EXTENSIONS

\* C16: isAllowedFileType(fileName, mimeType) is false exactly when the MIME
\* type is absent or outside the allowed MIME list and the lower-cased
\* extension is outside the allowed extension list ("doc.docx" without MIME
\* type is allowed, "doc.exe" without MIME type is rejected), and
\* POST /articles answers 400 for a rejected file before hashing, uploading
\* or parsing it.
C16_RejectedFilesAnswer400 ==
  upload.pc \notin {"idle", "received"} =>
    /\ isAllowedFileType(upload.fileName, upload.mimeType)
         = ~Rejected(upload.fileName, upload.mimeType)
    /\ upload.status = 400 <=> Rejected(upload.fileName, upload.mimeType)
    /\ upload.status = 400 =>
         /\ upload.pc = "responded"
         /\ ~upload.hashed /\ ~upload.uploaded
         /\ upload.parser = "" /\ upload.result = <<>>
    /\ upload.fileName = "doc.docx" /\ upload.mimeType = "" => upload.hashed
    /\ upload.fileName = "doc.exe" /\ upload.mimeType = "" => upload.status = 400

\* doc.exe, sent without a MIME type, has been answered with 400
C16_Witness ==
  /\ upload.pc = "responded"
  /\ upload.fileName = "doc.exe" /\ upload.mimeType = ""
  /\ upload.status = 400
  /\ ~upload.hashed

\* what the MIME type alone decides ("": it decides nothing)
ExpectedByMime ==
  [mimeType \in MimeTypes |->
     CASE mimeType = "application/pdf" -> "PDF"
       [] mimeType = "application/epub+zip" -> "EBOOK"
       [] mimeType \in { "application/msword", "application/x-msword-template",
                         "application/vnd.openxmlformats-officedocument.wordprocessingml.document" }
            -> "BOOK"
       [] mimeType \in {"text/markdown", "text/html", "text/plain"} -> "ARTICLE"
       [] OTHER -> ""]

\* the extension table
ExpectedByExtension ==
  [fileName \in FileNames |->
     CASE ExpectedExtension[fileName] = ".pdf" -> "PDF"
       [] ExpectedExtension[fileName] = ".epub" -> "EBOOK"
       [] ExpectedExtension[fileName] \in {".docx", ".doc"} -> "BOOK"
       [] OTHER -> "ARTICLE"]

\* C17: detectFileType checks the MIME type first (application/pdf PDF,
\* application/epub+zip EBOOK, a word-processing MIME type BOOK, markdown,
\* html or plain text ARTICLE) and consults the extension table (.pdf PDF,
\* .epub EBOOK, .docx/.doc BOOK, the rest ARTICLE) only when the MIME type is
\* absent or unrecognized; a recognized MIME type wins over a conflicting
\* extension and the default is ARTICLE.
C17_MimeTypeBeforeExtension ==
  upload.pc \notin {"idle", "received"} =>
    detectFileType(upload.fileName, upload.mimeType) =
      IF ExpectedByMime[upload.mimeType] # "" THEN ExpectedByMime[upload.mimeType]
      ELSE ExpectedByExtension[upload.fileName]

\* Report.PDF sent as text/plain has been classified ARTICLE and read as text
C17_Witness ==
  /\ upload.pc = "extracted"
  /\ upload.fileName = "Report.PDF" /\ upload.mimeType = "text/plain"
  /\ upload.parser = "txt"
  /\ upload.result.contentType = "ARTICLE"

\* s holds pat somewhere, letter case ignored
containsFold(s, pat) == \E i \in 1..Len(s) : hasAt(s, i, pat)
\* s holds an attribute on*="..." somewhere
holdsHandler(s) == \E i \in 1..Len(s) : handlerAt(s, i) > 0
\* sanitizeHtml has run on the article of the page
SanitizeRan == page.pc \in {"normalize", "finish"} \/ (page.pc = "done" /\ page.sanitized # "")

\* C18: for every input, the output of sanitizeHtml holds no '<script'
\* opening of a script block, no '<style' block, no on*="..." event-handler
\* attribute, and neither 'javascript:' nor 'data:text/html'; for the input
\* <script>alert(1)</script><p onclick="x()">hi</p> it holds neither
\* '<script' nor 'onclick='.
C18_SanitizedHoldsNothingActive ==
  SanitizeRan =>
    /\ ~containsFold(page.sanitized, "<script")
    /\ ~containsFold(page.sanitized, "<style")
    /\ ~holdsHandler(page.sanitized)
    /\ ~containsFold(page.sanitized, "javascript:")
    /\ ~containsFold(page.sanitized, "data:text/html")
    /\ page.doc.article.content = "<script>alert(1)</script><p onclick=\"x()\">hi</p>" =>
         ~containsFold(page.sanitized, "onclick=")

isAbsoluteSource(src) ==
  startsWith(src, "http://") \/ startsWith(src, "https://") \/ startsWith(src, "data:")

\* the img tags of the inputs with every src that is not absolute resolved
\* against the URL of the page, and what a second normalization makes of
\* the normalized tag
ImgFacts ==
  tabulated([url \in PageUrls |-> tabulated([img \in ImgTags |->
     [expected |->
        renderImg([i \in 1..Len(img) |->
                     IF img[i].name = "src" /\ ~isAbsoluteSource(img[i].value)
                     THEN Attr("src", resolveUrl(img[i].value, url))
                     ELSE img[i]]),
      twice |-> normalizeImageUrls(normalizeImageUrls(renderImg(img), url), url)]])])

\* normalizeImageUrls has run on the page
NormalizeRan == page.pc = "finish" \/ (page.pc = "done" /\ page.doc.readability = "article")

\* C19: normalizeImageUrls rewrites every img src that does not start with
\* 'http://', 'https://' or 'data:' to the absolute URL obtained by
\* resolving it against the URL of the page ('img.png' on
\* https://site.example/posts/1 becomes https://site.example/posts/img.png),
\* leaves absolute and data sources and everything outside img tags
\* unchanged, and is idempotent.
C19_EveryRelativeSourceIsResolved ==
  NormalizeRan =>
    /\ ~containsFold(page.sanitized, "<img") => page.normalized = page.sanitized
    /\ page.doc.img # <<>> /\ page.sanitized = renderImg(page.doc.img) =>
         /\ page.normalized = ImgFacts[page.url][page.doc.img].expected
         /\ ImgFacts[page.url][page.doc.img].twice = page.normalized
    /\ page.url = "https://site.example/posts/1"
         /\ page.sanitized = "<img src=\"img.png\">" =>
           page.normalized = "<img src=\"https://site.example/posts/img.png\">"

\* the text of container n of the document, cleaned and trimmed, is longer
\* than 100 characters
LongContainer(doc, n) == Len(trim(doc.containers[n])) > 100
\* text is what the fallback takes from the document
IsFallbackText(doc, text) ==
  \/ \E n \in 1..Len(doc.containers) :
       /\ LongContainer(doc, n)
       /\ \A m \in 1..(n - 1) : ~LongContainer(doc, m)
       /\ text = trim(doc.containers[n])
  \/ /\ \A n \in 1..Len(doc.containers) : ~LongContainer(doc, n)
     /\ text = doc.body
\* Readability threw or gave no article on the page, and the call returned
ReadabilityGaveNothing ==
  page.pc = "done" /\ page.doc.parses /\ page.doc.readability \in {"none", "throws"}

\* C20: in the HTML pipeline of extractContent, whenever Readability throws
\* or yields no article, content is taken from the fallback (the first
\* container selector, in the listed order, whose cleaned text is longer
\* than 100 characters, else the cleaned body text), and word count and
\* reading time are computed from that fallback text.
C20_NoArticleFallsBack ==
  ReadabilityGaveNothing =>
    /\ "content" \in DOMAIN page.result
    /\ IsFallbackText(page.doc, page.result.content)
    /\ page.result.content # "" =>
         /\ "wordCount" \in DOMAIN page.result /\ "readingTime" \in DOMAIN page.result
         /\ page.result.wordCount = countWords(page.result.content)

(***************************************************************************)
(* C21-C30.                                                                *)
(***************************************************************************)
FieldSelectors ==
  [title |-> TitleSelectors, description |-> DescriptionSelectors,
   coverImage |-> CoverImageSelectors, siteName |-> SiteNameSelectors,
   author |-> AuthorSelectors, publishedDate |-> PublishedDateSelectors]

\* the values an element can give: its content attribute, its datetime
\* attribute or its text, trimmed and not empty
elementValues(element) ==
  {trim(element.content), trim(element.datetime), trim(element.textContent)} \ {""}

\* the places in the list of selectors whose element gives a value
yielding(document, selectors) ==
  {i \in 1..Len(selectors) :
     /\ selectors[i] \in DOMAIN document
     /\ elementValues(document[selectors[i]]) # {}}

\* a field is resolved as described: absent when no selector gives a value,
\* else a value of the element of the first selector that gives one
resolvedInOrder(document, metadata, field) ==
  LET selectors == FieldSelectors[field]
      places == yielding(document, selectors)
  IN IF places = {} THEN field \notin DOMAIN metadata
     ELSE /\ field \in DOMAIN metadata
          /\ metadata[field] \in
               elementValues(document[selectors[CHOOSE i \in places : \A j \in places : i <= j]])

\* C21: once the metadata of a parsed document are extracted, each of title,
\* description, coverImage, siteName, author and publishedDate is the first
\* non-empty trimmed value in the order of its selectors, a value that is the
\* content or datetime attribute or the text of the matched element, and the
\* field is absent when no selector gives a value.
C21_FirstNonEmptySelectorWins ==
  page.pc = "extracted" =>
    \A field \in DOMAIN FieldSelectors :
      resolvedInOrder(page.document, page.metadata, field)

\* the list of images of a record; a record without the key has none
imagesOf(r) == IF "images" \in DOMAIN r THEN r.images ELSE <<>>

\* the sources of the img tags of a text, in the order of the tags
RECURSIVE sourcesFrom(_, _)
sourcesFrom(html, i) ==
  CHOOSE sources \in
    { IF j = 0 THEN <<>>
      ELSE <<imgAt(html, j).src>> \o sourcesFrom(html, j + imgAt(html, j).len)
      : j \in {nextImg(html, i)} } : TRUE

\* the sources in the content of the record of every page of the inputs
ContentSources ==
  tabulated([url \in PageUrls |-> tabulated([doc \in PageDocuments |->
     IF "content" \in DOMAIN PageJobFacts[url][doc].result
     THEN sourcesFrom(PageJobFacts[url][doc].result.content, 1) ELSE <<>>])])

\* the first n elements of a sequence
firstOf(s, n) == SubSeq(s, 1, IF Len(s) < n THEN Len(s) ELSE n)

\* C22: the images of a record returned by extractContent are exactly the
\* first 10, in document order, of the img sources in the record's content
\* that are no data URI: at most 10 entries, none a data URI, each one a
\* source present in the content.
C22_ImagesComeFromFinalContent ==
  page.pc = "done" /\ page.doc.parses =>
    LET sources == ContentSources[page.url][page.doc]
        images == imagesOf(page.result)
    IN /\ Len(images) <= 10
       /\ \A i \in 1..Len(images) : ~startsWith(images[i], "data:")
       /\ \A i \in 1..Len(images) : \E j \in 1..Len(sources) : images[i] = sources[j]
       /\ images = firstOf(SelectSeq(sources, LAMBDA src : ~startsWith(src, "data:")), 10)

\* call c went to the YouTube adapter (line 56)
YouTubeCall(c) == calls[c].ctx = "youtube" /\ ~calls[c].hit

\* the record holds the content type and the title only
OnlyTypeAndTitle(r) == DOMAIN r = {"contentType", "title"}

\* the adapter did what is described for call c
youTubeSourcesInOrder(c) ==
  LET k == calls[c]
  IN /\ ~k.raised
     /\ k.oembed = 1
     /\ k.pc = "oembed" => k.timer = 10000 /\ k.requests = 0
     /\ k.pc = "done" =>
          /\ k.result.contentType = "YOUTUBE"
          /\ "title" \in DOMAIN k.result /\ k.result.title # ""
          /\ OnlyTypeAndTitle(k.result) =>
               /\ k.requests >= 1
               /\ k.thrown # NoError
               /\ k.result.title = UrlFacts[k.url].title

\* C23: for a YOUTUBE URL the adapter first asks the oEmbed endpoint, with a
\* timeout of 10 seconds; when that call fails, times out or is answered
\* non-2xx it fetches the page and uses the metadata extractors; when that
\* fails too it returns contentType YOUTUBE and the title made from the
\* host name, nothing else.  Every record it returns has contentType YOUTUBE
\* and a title that is not empty, and it never raises.
C23_YouTubeSourcesInOrder ==
  \A c \in Calls : YouTubeCall(c) => youTubeSourcesInOrder(c)

\* the chapters of a list that were retrieved with markup in them
retrieved(chapters) == SelectSeq(chapters, LAMBDA ch : ~ch.err /\ ch.markup # "")

\* the texts of a list of chapters, each followed by a blank line
RECURSIVE joinChapters(_)
joinChapters(chapters) ==
  IF chapters = <<>> THEN ""
  ELSE Head(chapters).text \o "\n\n" \o joinChapters(Tail(chapters))

\* the 'end' handler of processEPUB is visiting the spine, or has visited it
VisitingSpine == upload.pc = "chapters"
SpineVisited ==
  upload.pc = "extracted" /\ upload.parser = "epub" /\ upload.failure = ""
    /\ upload.epub.spineLength > 0

AttemptUnderWay(c) == calls[c].pc \in {"fetching", "reading"}

\* C25: every attempt of fetchWithRetry is bounded by the 30-second timeout
\* for its whole duration: from the start of the request until the body is
\* read or the attempt has failed, the abort timer is armed.
C25_AttemptIsTimeBounded ==
  \A c \in Calls : AttemptUnderWay(c) => calls[c].timer = FETCH_TIMEOUT


\* C27: the cache only ever holds records of successful extractions: no
\* entry is the minimal record (contentType and the title derived from the
\* host name) that stands for a failed fetch or adapter call, so a failure
\* is never served from the cache to a later call.
C27_CacheHoldsNoDegradedRecord ==
  \A url \in DOMAIN contentCache : contentCache[url].data # UrlFacts[url].minimal


\* the POST /articles requests that carried a file and have been answered
AnsweredUploads ==
  {r \in Requests : /\ requests[r].pc = "responded"
                    /\ requests[r].method = "POST"
                    /\ requests[r].file}

\* C26: whenever a POST /articles request carrying a file ends with anything
\* but 201 (the article row stored), no blob uploaded by the request is left
\* in storage: the compensating deleteFile has been performed for it.
C26_NoBlobWithoutArticle ==
  \A r \in AnsweredUploads : requests[r].status # 201 => r \notin storage


\* two rows of the Article table of one user with the same urlHash, or with
\* the same fileHash
sameSource(a, b) ==
  /\ a.userId = b.userId
  /\ \/ a.urlHash # "" /\ a.urlHash = b.urlHash
     \/ a.fileHash # "" /\ a.fileHash = b.fileHash

\* C28: after any interleaving of POST /articles requests, a user has at
\* most one article per urlHash and at most one per fileHash; a request for
\* what the user has saved already is answered 409 with the existing
\* article, creates nothing and uploads nothing.
C28_OneArticlePerHash ==
  /\ \A i, j \in 1..Len(articles) : i # j => ~sameSource(articles[i], articles[j])
  /\ \A r \in Requests :
       (requests[r].pc = "responded" /\ requests[r].method = "POST"
          /\ requests[r].status = 409) =>
         /\ requests[r].existing \in 1..Len(articles)
         /\ requests[r].created = 0
         /\ requests[r].fileUrl = 0


\* the POST /articles requests that have been answered and had arrived
\* presenting a token that DELETE /tokens/:id had revoked by then
AnsweredWithRevokedToken ==
  {r \in Requests : /\ requests[r].pc = "responded"
                    /\ requests[r].method = "POST"
                    /\ requests[r].revoked}

\* no step clears the revokedAt of a token
RevokedStaysRevoked ==
  [][\A token \in DOMAIN accessTokens :
       accessTokens[token].revokedAt # Null =>
         /\ token \in DOMAIN accessTokens'
         /\ accessTokens'[token].revokedAt # Null]_vars

PagesSet(a) == a.totalPages # Null /\ a.currentPage # Null

\* C29: for every article, after any sequence of PATCH /articles/:id and
\* POST /articles/:id/read requests, whenever totalPages and currentPage
\* are both set, currentPage is at most totalPages (a request that would
\* set currentPage above the effective totalPages is refused with 400).
C29_CurrentPageWithinTotal ==
  \A i \in 1..Len(articles) :
    PagesSet(articles[i]) => articles[i].currentPage <= articles[i].totalPages

====
